---- MODULE Spec2Model ----
(***************************************************************************)
(* Model of the skill registry (core/registry.py), the capability         *)
(* contract (core/base_skill.py) and the exposure middleware               *)
(* (middleware/skill_middleware.py, middleware/skill_middleware_simple.py) *)
(* of skill_system2.                                                       *)
(*                                                                         *)
(* A Python dict is modelled as a sequence of [key, val] entries: a dict   *)
(* keeps insertion order, assigning to a present key keeps its position,   *)
(* and del removes the entry.                                              *)
(***************************************************************************)
EXTENDS Integers, Sequences, FiniteSets, TLC

\* ------------------------------------------------------------------ bounds
MaxTools == 2
MaxUnlocked == 2
MaxDirs == 2
MaxCandidates == 3
MaxList == 2
MaxFifoSize == 2
\* SkillStateFIFO: skill_list_fifo(3).
FifoMaxSkills == 3

\* ------------------------------------------------------------- vocabulary
None == "None"
NoSkill == [kind |-> "None"]
NoTool == [kind |-> "None"]

SkillNames == {"X", "Y", "Z"}
\* Names that occur in unlocked-names lists: two registrable ones and one
\* that is never registered.
UnlockNames == {"X", "Y", "ghost"}
LookupNames == SkillNames \cup {"ghost"}

Range(s) == {s[i] : i \in DOMAIN s}
InSeq(x, s) == \E i \in DOMAIN s : s[i] = x
SeqsUpTo(S, n) == UNION {[1..k -> S] : k \in 0..n}
\* A Python value that is None or a list of names.
PyNone == [is_none |-> TRUE, items |-> <<>>]
Py(s) == [is_none |-> FALSE, items |-> s]
\* `not v`: None and the empty list are falsy.
Falsy(v) == v.is_none \/ v.items = <<>>

\* Capabilities that pass BaseSkill.validate.
ValidSkills ==
    [name : SkillNames, description : {"d"}, enabled : BOOLEAN,
     ntools : {MaxTools}, has_loader : {TRUE}]

\* One capability per way of failing BaseSkill.validate.
InvalidSkills ==
    { [name |-> "",  description |-> "d", enabled |-> TRUE, ntools |-> 1, has_loader |-> TRUE],
      [name |-> "X", description |-> "",  enabled |-> TRUE, ntools |-> 1, has_loader |-> TRUE],
      [name |-> "X", description |-> "d", enabled |-> TRUE, ntools |-> 0, has_loader |-> TRUE],
      [name |-> "X", description |-> "d", enabled |-> TRUE, ntools |-> 1, has_loader |-> FALSE] }

Skills == ValidSkills \cup InvalidSkills

UnlockedLists == SeqsUpTo(UnlockNames, MaxUnlocked)

\* ------------------------------------------------------ capability contract
\* BaseSkill.metadata: the descriptor of a capability.
\* A capability that sets tags and visibility carries them; the others have
\* SkillMetadata's defaults, read by tags_of and visibility_of.
metadata(skill) ==
    IF "tags" \in DOMAIN skill
    THEN [name |-> skill.name, description |-> skill.description, enabled |-> skill.enabled,
          tags |-> skill.tags, visibility |-> skill.visibility]
    ELSE [name |-> skill.name, description |-> skill.description, enabled |-> skill.enabled]
tags_of(meta) == IF "tags" \in DOMAIN meta THEN meta.tags ELSE <<>>
visibility_of(meta) == IF "visibility" \in DOMAIN meta THEN meta.visibility ELSE "public"

\* BaseSkill.get_tools: the regular operation handles, owned by the capability.
get_tools(skill) ==
    [i \in 1..skill.ntools |-> [kind |-> "tool", owner |-> skill, idx |-> i]]

\* BaseSkill.get_loader_tool: the loader handle (None when the capability has none).
get_loader_tool(skill) ==
    IF skill.has_loader THEN [kind |-> "loader", owner |-> skill, idx |-> 0] ELSE NoTool

\* BaseSkill.validate: the exception it raises, or None when it returns True.
validate(skill) ==
    IF skill.name = "" THEN "ValueError"
    ELSE IF skill.description = "" THEN "ValueError"
    ELSE IF get_tools(skill) = <<>> THEN "ValueError"
    ELSE IF get_loader_tool(skill) = NoTool THEN "ValueError"
    ELSE None

\* ------------------------------------------------------------ dict helpers
DictHas(d, k) == \E i \in DOMAIN d : d[i].key = k
DictGet(d, k) == d[CHOOSE i \in DOMAIN d : d[i].key = k].val
DictKeys(d) == [i \in DOMAIN d |-> d[i].key]
DictSet(d, k, v) ==
    IF DictHas(d, k)
    THEN [i \in DOMAIN d |-> IF d[i].key = k THEN [key |-> k, val |-> v] ELSE d[i]]
    ELSE Append(d, [key |-> k, val |-> v])
DictDel(d, k) == SelectSeq(d, LAMBDA e : e.key # k)

\* ------------------------------------------------------------------- state
VARIABLES skills, metadata_cache, filter_fn, verbose, reducer, state, invoked, turns,
          call, ret, raised

vars == <<skills, metadata_cache, filter_fn, verbose, reducer, state, invoked, turns,
          call, ret, raised>>

\* The registry as one value, for operations that change it.
Registry == [skills |-> skills, metadata_cache |-> metadata_cache]

\* ------------------------------------------------------------ registry reads
\* Predicates over descriptors that callers pass to list_skills (None: no filter).
MetaFilters == {None, "name_is_X", "enabled", "never"}
\* SkillSystemConfig.allowed_visibilities, as it is by default.
AllowedVisibilities == {"public"}
\* visibility_filter of create_skill_agent under a config.
visibility_filter(config, meta) ==
    IF ~config.filter_by_visibility THEN TRUE
    ELSE visibility_of(meta) \in AllowedVisibilities
ApplyMetaFilter(f, meta) ==
    CASE f = "name_is_X" -> meta.name = "X"
      [] f = "enabled"   -> meta.enabled
      [] f = "never"     -> FALSE
      [] f = "visibility_filter" -> visibility_filter([filter_by_visibility |-> TRUE], meta)
      [] f = "visibility_filter_off" -> visibility_filter([filter_by_visibility |-> FALSE], meta)

\* SkillRegistry.__contains__ and __len__.
contains(skill_name) == DictHas(skills, skill_name)
len == Len(skills)

\* SkillRegistry.get: [raised, val].
get(skill_name) ==
    IF ~DictHas(skills, skill_name)
    THEN [raised |-> "SkillNotFoundError", val |-> NoSkill]
    ELSE [raised |-> None, val |-> DictGet(skills, skill_name)]

\* Mutant: a lookup that returns a sentinel for an absent name (dict.get).
get_metadata_sentinel(skill_name) ==
    IF ~DictHas(metadata_cache, skill_name)
    THEN [raised |-> None, val |-> NoSkill]
    ELSE [raised |-> None, val |-> DictGet(metadata_cache, skill_name)]

\* SkillRegistry.get_metadata: [raised, val].
get_metadata(skill_name) ==
    IF ~DictHas(metadata_cache, skill_name)
    THEN [raised |-> "SkillNotFoundError", val |-> NoSkill]
    ELSE [raised |-> None, val |-> DictGet(metadata_cache, skill_name)]

\* SkillRegistry.list_skills.
list_skills(f) ==
    IF f = None
    THEN DictKeys(skills)
    ELSE DictKeys(SelectSeq(metadata_cache, LAMBDA e : ApplyMetaFilter(f, e.val)))

\* The characters of the strings that names, descriptions and queries are
\* (a one-character string is its own character).
Chars(str) ==
    CASE str = "" -> <<>>
      [] str = "alpha" -> <<"a", "l", "p", "h", "a">>
      [] str = "beta" -> <<"b", "e", "t", "a">>
      [] str = "Gamma" -> <<"G", "a", "m", "m", "a">>
      [] str = "Adds" -> <<"A", "d", "d", "s">>
      [] str = "Text" -> <<"T", "e", "x", "t">>
      [] str = "ALgebra" -> <<"A", "L", "g", "e", "b", "r", "a">>
      [] str = "al" -> <<"a", "l">>
      [] str = "AL" -> <<"A", "L">>
      [] str = "TA" -> <<"T", "A">>
      [] str = "ah" -> <<"a", "h">>
      [] OTHER -> <<str>>
\* str.lower(), character by character.
LowerChar(c) ==
    CASE c = "A" -> "a" [] c = "D" -> "d" [] c = "G" -> "g" [] c = "L" -> "l"
      [] c = "T" -> "t" [] c = "X" -> "x" [] c = "Y" -> "y" [] c = "Z" -> "z"
      [] OTHER -> c
Lower(str) == [i \in DOMAIN Chars(str) |-> LowerChar(Chars(str)[i])]
\* Python's `needle in hay` on the characters of two strings.
IsSubstring(needle, hay) ==
    \E i \in 0 .. Len(hay) - Len(needle) :
        \A k \in 1 .. Len(needle) : hay[i + k] = needle[k]

\* SkillRegistry.search: the descriptors that pass every criterion given
\* (query "", tags [] or None (both <<>> here), visibility None: not given).
SearchQueries == {"", "x", "D", "q", "al", "AL", "TA", "ah"}
SearchTags == {<<>>, <<"t">>, <<"u", "t">>, <<"text">>, <<"u", "math">>}
SearchVisibilities == {None, "public", "internal"}

\* A search that compares query, name and description as they are spelt.
search_case_sensitive(query, tags, visibility) ==
    LET keep(meta) ==
            /\ query # "" =>
                  \/ IsSubstring(Chars(query), Chars(meta.name))
                  \/ IsSubstring(Chars(query), Chars(meta.description))
            /\ tags # <<>> => \E i \in DOMAIN tags : InSeq(tags[i], tags_of(meta))
            /\ visibility # None => visibility_of(meta) = visibility
        results == SelectSeq(metadata_cache, LAMBDA e : keep(e.val))
    IN [i \in DOMAIN results |-> results[i].val]

search(query, tags, visibility) ==
    LET keep(meta) ==
            /\ query # "" =>
                  \/ IsSubstring(Lower(query), Lower(meta.name))
                  \/ IsSubstring(Lower(query), Lower(meta.description))
            /\ tags # <<>> => \E i \in DOMAIN tags : InSeq(tags[i], tags_of(meta))
            /\ visibility # None => visibility_of(meta) = visibility
        results == SelectSeq(metadata_cache, LAMBDA e : keep(e.val))
    IN [i \in DOMAIN results |-> results[i].val]

\* The loop of get_all_loader_tools over the listed names.
RECURSIVE loader_loop(_, _)
loader_loop(loaders, skill_names) ==
    IF skill_names = <<>> THEN loaders
    ELSE LET skill == DictGet(skills, Head(skill_names))
         IN loader_loop(IF metadata(skill).enabled
                        THEN Append(loaders, get_loader_tool(skill))
                        ELSE loaders,
                        Tail(skill_names))

\* Mutant: the loader list leaves out the first listed capability.
get_all_loader_tools_skip_first(f) ==
    IF list_skills(f) = <<>> THEN <<>> ELSE loader_loop(<<>>, Tail(list_skills(f)))

\* SkillRegistry.get_all_loader_tools.
get_all_loader_tools(f) == loader_loop(<<>>, list_skills(f))

\* The loop of get_all_tools over the listed names.
RECURSIVE all_tools_loop(_, _)
all_tools_loop(all_tools, skill_names) ==
    IF skill_names = <<>> THEN all_tools
    ELSE LET skill == DictGet(skills, Head(skill_names))
         IN all_tools_loop(IF metadata(skill).enabled
                           THEN Append(all_tools, get_loader_tool(skill)) \o get_tools(skill)
                           ELSE all_tools,
                           Tail(skill_names))

\* The loop of a get_all_tools that does not consult the enabled flag.
RECURSIVE all_tools_loop_ignore_enabled(_, _)
all_tools_loop_ignore_enabled(all_tools, skill_names) ==
    IF skill_names = <<>> THEN all_tools
    ELSE LET skill == DictGet(skills, Head(skill_names))
         IN all_tools_loop_ignore_enabled(
                Append(all_tools, get_loader_tool(skill)) \o get_tools(skill),
                Tail(skill_names))
\* The loop of a get_all_tools that extends with get_tools() before it
\* appends the loader.
RECURSIVE all_tools_loop_tools_first(_, _)
all_tools_loop_tools_first(all_tools, skill_names) ==
    IF skill_names = <<>> THEN all_tools
    ELSE LET skill == DictGet(skills, Head(skill_names))
         IN all_tools_loop_tools_first(
                IF metadata(skill).enabled
                THEN Append(all_tools \o get_tools(skill), get_loader_tool(skill))
                ELSE all_tools,
                Tail(skill_names))
get_all_tools_ignore_enabled(f) == all_tools_loop_ignore_enabled(<<>>, list_skills(f))
get_all_tools_tools_first(f) == all_tools_loop_tools_first(<<>>, list_skills(f))
\* SkillRegistry.get_all_tools.
get_all_tools(f) == all_tools_loop(<<>>, list_skills(f))

\* The loop of get_tools_for_skills over the unlocked names.
RECURSIVE unlocked_loop(_, _)
unlocked_loop(tools, skill_names) ==
    IF skill_names = <<>> THEN tools
    ELSE LET name == Head(skill_names)
         IN unlocked_loop(IF DictHas(skills, name) /\ metadata(DictGet(skills, name)).enabled
                          THEN tools \o get_tools(DictGet(skills, name))
                          ELSE tools,
                          Tail(skill_names))

\* Mutant: the enabled flag of an unlocked capability is not consulted.
RECURSIVE unlocked_loop_ignore_enabled(_, _)
unlocked_loop_ignore_enabled(tools, skill_names) ==
    IF skill_names = <<>> THEN tools
    ELSE LET name == Head(skill_names)
         IN unlocked_loop_ignore_enabled(IF DictHas(skills, name)
                                         THEN tools \o get_tools(DictGet(skills, name))
                                         ELSE tools,
                                         Tail(skill_names))
get_tools_for_skills_ignore_enabled(skill_names) ==
    unlocked_loop_ignore_enabled(get_all_loader_tools(None), skill_names)

\* Mutant: the loop stops at the first unregistered name instead of skipping it.
RECURSIVE unlocked_loop_break(_, _)
unlocked_loop_break(tools, skill_names) ==
    IF skill_names = <<>> THEN tools
    ELSE LET name == Head(skill_names)
         IN IF ~DictHas(skills, name) THEN tools
            ELSE unlocked_loop_break(IF metadata(DictGet(skills, name)).enabled
                                     THEN tools \o get_tools(DictGet(skills, name))
                                     ELSE tools,
                                     Tail(skill_names))
get_tools_for_skills_break(skill_names) ==
    unlocked_loop_break(get_all_loader_tools(None), skill_names)

\* Mutant: each unlocked capability replaces the operations of the one before
\* it (tools = loaders + skill.get_tools() instead of tools.extend(...)).
RECURSIVE unlocked_loop_latest(_, _)
unlocked_loop_latest(tools, skill_names) ==
    IF skill_names = <<>> THEN tools
    ELSE LET name == Head(skill_names)
         IN unlocked_loop_latest(IF DictHas(skills, name) /\ metadata(DictGet(skills, name)).enabled
                                 THEN get_all_loader_tools(None) \o get_tools(DictGet(skills, name))
                                 ELSE tools,
                                 Tail(skill_names))
get_tools_for_skills_latest(skill_names) ==
    unlocked_loop_latest(get_all_loader_tools(None), skill_names)

\* SkillRegistry.get_tools_for_skills (assemble_for_unlocked).
get_tools_for_skills(skill_names) ==
    unlocked_loop(get_all_loader_tools(None), skill_names)

\* ---------------------------------------------------------- registry writes
\* Mutant: a name that is already present keeps its first registration.
register_keep_first(reg, skill) ==
    IF validate(skill) # None
    THEN [raised |-> validate(skill), warned |-> FALSE,
          skills |-> reg.skills, metadata_cache |-> reg.metadata_cache]
    ELSE IF DictHas(reg.skills, metadata(skill).name)
    THEN [raised |-> None, warned |-> TRUE,
          skills |-> reg.skills, metadata_cache |-> reg.metadata_cache]
    ELSE [raised |-> None, warned |-> FALSE,
          skills |-> DictSet(reg.skills, metadata(skill).name, skill),
          metadata_cache |-> DictSet(reg.metadata_cache, metadata(skill).name, metadata(skill))]

\* A register that deletes the name before it stores it again.
register_move_to_end(reg, skill) ==
    IF validate(skill) # None
    THEN [raised |-> validate(skill), warned |-> FALSE,
          skills |-> reg.skills, metadata_cache |-> reg.metadata_cache]
    ELSE LET name == metadata(skill).name
         IN [raised |-> None,
             warned |-> DictHas(reg.skills, name),
             skills |-> DictSet(DictDel(reg.skills, name), name, skill),
             metadata_cache |-> DictSet(DictDel(reg.metadata_cache, name), name,
                                        metadata(skill))]

\* SkillRegistry.register on registry value reg: the exception that leaves it
\* (None when it returns), whether the overwrite warning was logged, and the
\* two maps afterwards.
register(reg, skill) ==
    IF validate(skill) # None
    THEN [raised |-> validate(skill), warned |-> FALSE,
          skills |-> reg.skills, metadata_cache |-> reg.metadata_cache]
    ELSE LET name == metadata(skill).name
         IN [raised |-> None,
             warned |-> DictHas(reg.skills, name),
             skills |-> DictSet(reg.skills, name, skill),
             metadata_cache |-> DictSet(reg.metadata_cache, name, metadata(skill))]

\* Mutant: only the descriptor cache entry is deleted.
unregister_cache_only(reg, skill_name) ==
    IF DictHas(reg.skills, skill_name)
    THEN [raised |-> None, logged |-> TRUE, skills |-> reg.skills,
          metadata_cache |-> DictDel(reg.metadata_cache, skill_name)]
    ELSE [raised |-> None, logged |-> FALSE, skills |-> reg.skills, metadata_cache |-> reg.metadata_cache]

\* Mutant: the last entry is moved into the place of the removed one.
SwapRemove(d, k) ==
    LET i == CHOOSE j \in DOMAIN d : d[j].key = k
    IN SubSeq([d EXCEPT ![i] = d[Len(d)]], 1, Len(d) - 1)
unregister_swap_remove(reg, skill_name) ==
    IF DictHas(reg.skills, skill_name)
    THEN [raised |-> None, logged |-> TRUE, skills |-> SwapRemove(reg.skills, skill_name),
          metadata_cache |-> SwapRemove(reg.metadata_cache, skill_name)]
    ELSE [raised |-> None, logged |-> FALSE, skills |-> reg.skills, metadata_cache |-> reg.metadata_cache]

\* SkillRegistry.unregister on registry value reg: the maps afterwards and
\* whether the removal was logged.
unregister(reg, skill_name) ==
    IF DictHas(reg.skills, skill_name)
    THEN [raised |-> None, logged |-> TRUE, skills |-> DictDel(reg.skills, skill_name),
          metadata_cache |-> DictDel(reg.metadata_cache, skill_name)]
    ELSE [raised |-> None, logged |-> FALSE, skills |-> reg.skills, metadata_cache |-> reg.metadata_cache]

\* ---------------------------------------------------------------- discovery
\* What discover_and_load can meet in a skills directory, in iteration order:
\* a plain file, a subdirectory without the module file, a module that fails
\* to import, a module without create_skill, a create_skill that raises, a
\* create_skill that returns something that is no BaseSkill, and a module
\* whose create_skill returns a capability.
DiscoverableSkills ==
    { [name |-> "X", description |-> "d", enabled |-> TRUE,  ntools |-> MaxTools, has_loader |-> TRUE],
      [name |-> "Y", description |-> "d", enabled |-> FALSE, ntools |-> MaxTools, has_loader |-> TRUE],
      [name |-> "X", description |-> "d", enabled |-> TRUE,  ntools |-> 0, has_loader |-> TRUE] }
DirEntries ==
    [kind : {"file", "no_module_file", "import_error", "no_factory",
             "factory_raises", "wrong_type"}, skill : {NoSkill}]
    \cup [kind : {"skill"}, skill : DiscoverableSkills]
NoDir == <<[kind |-> "missing", skill |-> NoSkill]>>
\* The directories the registry is driven with: every capability module, and
\* one module that fails to load.
SkillsDirs ==
    SeqsUpTo({e \in DirEntries : e.kind \in {"no_factory", "skill"}}, MaxDirs) \cup {NoDir}

\* SkillRegistry._load_skill_from_file: [raised, val].
load_skill_from_file(entry) ==
    CASE entry.kind = "import_error"   -> [raised |-> "ImportError", val |-> NoSkill]
      [] entry.kind = "no_factory"     -> [raised |-> "SkillLoadError", val |-> NoSkill]
      [] entry.kind = "factory_raises" -> [raised |-> "Exception", val |-> NoSkill]
      [] entry.kind = "wrong_type"     -> [raised |-> "SkillLoadError", val |-> NoSkill]
      [] entry.kind = "skill"          -> [raised |-> None, val |-> entry.skill]

\* discover_and_load's loop without the try/except around one subdirectory:
\* the first failure ends the loop.
RECURSIVE discover_loop_abort(_, _, _)
discover_loop_abort(reg, loaded_count, entries) ==
    IF entries = <<>>
    THEN [raised |-> None, val |-> loaded_count,
          skills |-> reg.skills, metadata_cache |-> reg.metadata_cache]
    ELSE LET entry == Head(entries)
         IN IF entry.kind \in {"file", "no_module_file"}
            THEN discover_loop_abort(reg, loaded_count, Tail(entries))
            ELSE LET loaded == load_skill_from_file(entry)
                     r == register(reg, loaded.val)
                 IN IF loaded.raised # None \/ r.raised # None
                    THEN [raised |-> None, val |-> loaded_count,
                          skills |-> reg.skills, metadata_cache |-> reg.metadata_cache]
                    ELSE discover_loop_abort(
                           [skills |-> r.skills, metadata_cache |-> r.metadata_cache],
                           loaded_count + 1, Tail(entries))

\* discover_and_load's loop with loaded_count += 1 after the try block: every
\* subdirectory with a module file is counted.
RECURSIVE discover_loop_count_tried(_, _, _)
discover_loop_count_tried(reg, loaded_count, entries) ==
    IF entries = <<>>
    THEN [raised |-> None, val |-> loaded_count,
          skills |-> reg.skills, metadata_cache |-> reg.metadata_cache]
    ELSE LET entry == Head(entries)
         IN IF entry.kind \in {"file", "no_module_file"}
            THEN discover_loop_count_tried(reg, loaded_count, Tail(entries))
            ELSE LET loaded == load_skill_from_file(entry)
                 IN IF loaded.raised # None
                    THEN discover_loop_count_tried(reg, loaded_count + 1, Tail(entries))
                    ELSE LET r == register(reg, loaded.val)
                         IN discover_loop_count_tried(
                              [skills |-> r.skills, metadata_cache |-> r.metadata_cache],
                              loaded_count + 1, Tail(entries))

\* The loop of discover_and_load over the directory's entries.
RECURSIVE discover_loop(_, _, _)
discover_loop(reg, loaded_count, entries) ==
    IF entries = <<>>
    THEN [raised |-> None, val |-> loaded_count,
          skills |-> reg.skills, metadata_cache |-> reg.metadata_cache]
    ELSE LET entry == Head(entries)
         IN IF entry.kind \in {"file", "no_module_file"}
            THEN discover_loop(reg, loaded_count, Tail(entries))
            ELSE LET loaded == load_skill_from_file(entry)
                 IN IF loaded.raised # None
                    THEN discover_loop(reg, loaded_count, Tail(entries))
                    ELSE LET r == register(reg, loaded.val)
                         IN IF r.raised # None
                            THEN discover_loop(reg, loaded_count, Tail(entries))
                            ELSE discover_loop(
                                   [skills |-> r.skills, metadata_cache |-> r.metadata_cache],
                                   loaded_count + 1, Tail(entries))

\* SkillRegistry.discover_and_load on registry value reg.
discover_and_load(reg, skills_dir) ==
    IF skills_dir = NoDir
    THEN [raised |-> None, val |-> 0,
          skills |-> reg.skills, metadata_cache |-> reg.metadata_cache]
    ELSE discover_loop(reg, 0, skills_dir)

\* --------------------------------------------------------------- middleware
\* Predicates over operation handles that a middleware can be built with
\* (None: no filter_fn); "always_true" is PermissionAwareSkillMiddleware's.
ToolFilters == {None, "is_loader", "always_true"}
ApplyToolFilter(f, t) ==
    CASE f = "is_loader"   -> t.kind = "loader"
      [] f = "always_true" -> TRUE

\* The shapes of request.state: None, a dict or an object, without the
\* skills_loaded field, or with it holding a list of names or None.
RequestStates ==
    {[shape |-> "None", has |-> FALSE, skills_loaded |-> Py(<<>>)]}
    \cup [shape : {"dict", "object"}, has : {FALSE}, skills_loaded : {Py(<<>>)}]
    \cup [shape : {"dict", "object"}, has : {TRUE},
          skills_loaded : {Py(l) : l \in UnlockedLists} \cup {PyNone}]
Requests == [state : RequestStates, tools : {<<>>}, messages : {"m"}]

\* The handlers a model call is wrapped around: one that answers the request
\* it is given, one that raises.
Handlers == {"responds", "raises"}
NoResponse == [kind |-> "None"]
handler_call(handler, request) ==
    IF handler = "responds"
    THEN [raised |-> None, val |-> [kind |-> "ModelResponse", to |-> request]]
    ELSE [raised |-> "HandlerError", val |-> NoResponse]

\* A middleware object: the attributes set by SkillMiddleware.__init__.
Middleware == [verbose |-> verbose, filter_fn |-> filter_fn]
Middlewares == [verbose : BOOLEAN, filter_fn : ToolFilters]

\* SkillMiddleware._get_filtered_tools: [raised, val]. The loop of
\* registry.get_tools_for_skills over None raises TypeError.
\* A _get_filtered_tools that keeps the tools of the first model call and
\* answers the later ones from them.
get_filtered_tools_cached(self, skills_loaded) ==
    IF turns # <<>> /\ turns[Len(turns)] # <<>>
    THEN [raised |-> None, val |-> turns[Len(turns)][1].tools]
    ELSE IF skills_loaded.is_none
         THEN [raised |-> "TypeError", val |-> <<>>]
         ELSE [raised |-> None, val |-> get_tools_for_skills(skills_loaded.items)]

get_filtered_tools(self, skills_loaded) ==
    IF skills_loaded.is_none
    THEN [raised |-> "TypeError", val |-> <<>>]
    ELSE [raised |-> None, val |-> get_tools_for_skills(skills_loaded.items)]

\* The skills_loaded read at the top of wrap_model_call / awrap_model_call.
read_skills_loaded(request) ==
    IF request.state.shape # "None"
    THEN IF request.state.has THEN request.state.skills_loaded ELSE Py(<<>>)
    ELSE Py(<<>>)

\* An override that assigns request.tools in place and returns the request.
override_in_place(request, tools) ==
    [new |-> [request EXCEPT !.tools = tools], request |-> [request EXCEPT !.tools = tools]]

\* request.override(tools=...): a new request, the given one untouched.
override(request, tools) ==
    [new |-> [request EXCEPT !.tools = tools], request |-> request]

\* wrap_model_call that, when verbose, logs and hands the handler the request
\* as it came.
wrap_model_call_verbose_unfiltered(self, request, handler) ==
    LET skills_loaded == read_skills_loaded(request)
        relevant_tools == get_filtered_tools(self, skills_loaded)
    IN IF relevant_tools.raised # None
       THEN [raised |-> relevant_tools.raised, val |-> NoResponse,
             handled |-> <<>>, logged |-> <<>>, request |-> request]
       ELSE LET filtered_request == IF self.verbose
                                    THEN override(request, request.tools)
                                    ELSE override(request, relevant_tools.val)
                response == handler_call(handler, filtered_request.new)
            IN [raised |-> response.raised, val |-> response.val,
                handled |-> <<filtered_request.new>>,
                logged |-> IF self.verbose THEN <<[msg |-> "Skills loaded"]>> ELSE <<>>,
                request |-> filtered_request.request]

\* SkillMiddleware.wrap_model_call: what is raised or returned (val), the requests
\* the handler was called with, the log records written, and the caller's
\* request object after the call.
wrap_model_call(self, request, handler) ==
    LET skills_loaded == read_skills_loaded(request)
        relevant_tools == get_filtered_tools(self, skills_loaded)
    IN IF relevant_tools.raised # None
       THEN [raised |-> relevant_tools.raised, val |-> NoResponse,
             handled |-> <<>>, logged |-> <<>>, request |-> request]
       ELSE LET logged == IF self.verbose
                          THEN <<[msg |-> "Skills loaded", skills_loaded |-> skills_loaded.items],
                                 [msg |-> "Filtered tools", n |-> Len(relevant_tools.val)]>>
                          ELSE <<>>
                filtered_request == override(request, relevant_tools.val)
                response == handler_call(handler, filtered_request.new)
            IN [raised |-> response.raised, val |-> response.val,
                handled |-> <<filtered_request.new>>, logged |-> logged,
                request |-> filtered_request.request]

\* awrap_model_call that applies self.filter_fn to the tools it forwards.
awrap_model_call_filtering(self, request, handler) ==
    LET skills_loaded == read_skills_loaded(request)
        relevant_tools == get_filtered_tools(self, skills_loaded)
    IN IF relevant_tools.raised # None
       THEN [raised |-> relevant_tools.raised, val |-> NoResponse,
             handled |-> <<>>, logged |-> <<>>, request |-> request]
       ELSE LET kept == IF self.filter_fn # None
                        THEN SelectSeq(relevant_tools.val,
                                       LAMBDA t : ApplyToolFilter(self.filter_fn, t))
                        ELSE relevant_tools.val
                filtered_request == override(request, kept)
                response == handler_call(handler, filtered_request.new)
            IN [raised |-> response.raised, val |-> response.val,
                handled |-> <<filtered_request.new>>, logged |-> <<>>,
                request |-> filtered_request.request]

\* SkillMiddleware.awrap_model_call: what is raised or returned (val), the requests
\* the handler was called with, the log records written, and the caller's
\* request object after the call.
awrap_model_call(self, request, handler) ==
    LET skills_loaded == read_skills_loaded(request)
        relevant_tools == get_filtered_tools(self, skills_loaded)
    IN IF relevant_tools.raised # None
       THEN [raised |-> relevant_tools.raised, val |-> NoResponse,
             handled |-> <<>>, logged |-> <<>>, request |-> request]
       ELSE LET logged == IF self.verbose
                          THEN <<[msg |-> "(async) Skills loaded", skills_loaded |-> skills_loaded.items],
                                 [msg |-> "(async) Filtered tools", n |-> Len(relevant_tools.val)]>>
                          ELSE <<>>
                filtered_request == override(request, relevant_tools.val)
                response == handler_call(handler, filtered_request.new)
            IN [raised |-> response.raised, val |-> response.val,
                handled |-> <<filtered_request.new>>, logged |-> logged,
                request |-> filtered_request.request]

\* RateLimitedSkillMiddleware.wrap_model_call / awrap_model_call.
rate_limited_wrap_model_call(self, request, handler) ==
    wrap_model_call(self, request, handler)
rate_limited_awrap_model_call(self, request, handler) ==
    awrap_model_call(self, request, handler)

\* SimpleSkillMiddleware.get_tools_for_state: [val, logged].
get_tools_for_state(self, skills_loaded) ==
    LET tools == get_tools_for_skills(skills_loaded)
        filtered == IF self.filter_fn # None
                    THEN SelectSeq(tools, LAMBDA t : ApplyToolFilter(self.filter_fn, t))
                    ELSE tools
    IN [val |-> filtered,
        logged |-> IF self.verbose
                   THEN <<[skills_loaded |-> skills_loaded], [available_tools |-> Len(filtered)]>>
                   ELSE <<>>]

\* ----------------------------------------------------------------- reducers
\* s[:n] and s[-n:] for n >= 0 (s[-0:] is s[0:], the whole list).
SliceTo(s, n) == SubSeq(s, 1, IF n < Len(s) THEN n ELSE Len(s))
SliceLast(s, n) ==
    IF n = 0 \/ n >= Len(s) THEN s ELSE SubSeq(s, Len(s) - n + 1, Len(s))

ReducerNames == {"a", "b", "c"}
PyLists == {PyNone} \cup {Py(s) : s \in SeqsUpTo(ReducerNames, MaxList)}
Lists == {Py(s) : s \in SeqsUpTo(ReducerNames, MaxList)}

\* skill_list_reducer with `return new or current`.
skill_list_reducer_or_current(current, new) ==
    [raised |-> None, val |-> IF Falsy(new) THEN current ELSE new]

\* skill_list_reducer: [raised, val].
skill_list_reducer(current, new) == [raised |-> None, val |-> new]

\* current + [s for s in new if s not in current], on two lists.
combined(current, new) ==
    current \o SelectSeq(new, LAMBDA s : ~InSeq(s, current))

\* skill_list_accumulator with `combined = current + new`.
skill_list_accumulator_concat(current, new) ==
    IF Falsy(current)
    THEN [raised |-> None, val |-> new]
    ELSE IF new.is_none
         THEN [raised |-> "TypeError", val |-> PyNone]
         ELSE [raised |-> None, val |-> Py(current.items \o new.items)]

\* skill_list_accumulator with `if not current or not new: return new`.
skill_list_accumulator_reset_on_empty(current, new) ==
    IF Falsy(current) \/ Falsy(new)
    THEN [raised |-> None, val |-> new]
    ELSE [raised |-> None, val |-> Py(combined(current.items, new.items))]

\* skill_list_accumulator: [raised, val]. Iterating None raises TypeError.
skill_list_accumulator(current, new) ==
    IF Falsy(current)
    THEN [raised |-> None, val |-> new]
    ELSE IF new.is_none
         THEN [raised |-> "TypeError", val |-> PyNone]
         ELSE [raised |-> None, val |-> Py(combined(current.items, new.items))]

\* skill_list_fifo's reducer with `return combined[:max_skills]`.
skill_list_fifo_keep_oldest(max_skills, current, new) ==
    IF new.is_none
    THEN [raised |-> "TypeError", val |-> PyNone]
    ELSE IF Falsy(current)
         THEN [raised |-> None, val |-> Py(SliceTo(new.items, max_skills))]
         ELSE [raised |-> None,
               val |-> Py(SliceTo(combined(current.items, new.items), max_skills))]

\* skill_list_fifo's reducer with `return new` for an empty current.
skill_list_fifo_keep_all_new(max_skills, current, new) ==
    IF new.is_none
    THEN [raised |-> "TypeError", val |-> PyNone]
    ELSE IF Falsy(current)
         THEN [raised |-> None, val |-> new]
         ELSE [raised |-> None,
               val |-> Py(SliceLast(combined(current.items, new.items), max_skills))]

\* A skill_list_fifo that takes no new name once current holds max_skills.
skill_list_fifo_full_rejects(max_skills, current, new) ==
    IF new.is_none
    THEN [raised |-> "TypeError", val |-> PyNone]
    ELSE IF Falsy(current)
         THEN [raised |-> None, val |-> Py(SliceTo(new.items, max_skills))]
         ELSE IF Len(current.items) >= max_skills
              THEN [raised |-> None, val |-> current]
              ELSE [raised |-> None,
                    val |-> Py(SliceLast(combined(current.items, new.items), max_skills))]

\* The reducer returned by skill_list_fifo(max_skills): [raised, val].
\* Slicing or iterating None raises TypeError.
skill_list_fifo(max_skills, current, new) ==
    IF new.is_none
    THEN [raised |-> "TypeError", val |-> PyNone]
    ELSE IF Falsy(current)
         THEN [raised |-> None, val |-> Py(SliceTo(new.items, max_skills))]
         ELSE [raised |-> None,
               val |-> Py(SliceLast(combined(current.items, new.items), max_skills))]

\* The reducers a state schema can annotate skills_loaded with.
Reducers ==
    {[name |-> "skill_list_reducer", max_skills |-> 0],
     [name |-> "skill_list_accumulator", max_skills |-> 0]}
    \cup [name : {"skill_list_fifo"}, max_skills : 0..MaxFifoSize]
DefaultReducer == [name |-> "skill_list_reducer", max_skills |-> 0]
\* A fresh state object: skills_loaded = [].
SkillState == [skills_loaded |-> Py(<<>>)]

\* The annotated reducer applied to the channel's value and an update.
ApplyReducer(r, current, new) ==
    CASE r.name = "skill_list_reducer"     -> skill_list_reducer(current, new)
      [] r.name = "skill_list_accumulator" -> skill_list_accumulator(current, new)
      [] r.name = "skill_list_fifo"        -> skill_list_fifo(r.max_skills, current, new)

\* ------------------------------------------------------------------ actions
NoReturn == [kind |-> "raised"]
Returned(v) == [kind |-> "returned", val |-> v]

\* SkillRegistry(), with a middleware built over it without filter_fn.
Init ==
    /\ skills = <<>>
    /\ metadata_cache = <<>>
    /\ filter_fn = None
    /\ reducer = DefaultReducer
    /\ state = SkillState
    /\ verbose = FALSE
    /\ invoked = {}
    /\ turns = <<>>
    /\ call = [op |-> "init", arg |-> None]
    /\ ret = Returned(None)
    /\ raised = None

Write(r) ==
    /\ skills' = r.skills
    /\ metadata_cache' = r.metadata_cache
    /\ raised' = r.raised

Read(v) ==
    /\ ret' = Returned(v)
    /\ raised' = None
    /\ UNCHANGED <<skills, metadata_cache>>

CallRegister(skill) ==
    LET r == register(Registry, skill)
    IN /\ call' = [op |-> "register", arg |-> skill]
       /\ Write(r)
       /\ ret' = IF r.raised = None THEN [kind |-> "returned", val |-> None, warned |-> r.warned]
                 ELSE NoReturn
       /\ UNCHANGED <<filter_fn, verbose, reducer, state, invoked, turns>>

CallUnregister(skill_name) ==
    LET r == unregister(Registry, skill_name)
    IN /\ call' = [op |-> "unregister", arg |-> skill_name]
       /\ Write(r)
       /\ ret' = [kind |-> "returned", val |-> None, logged |-> r.logged]
       /\ UNCHANGED <<filter_fn, verbose, reducer, state, invoked, turns>>

CallDiscover(skills_dir) ==
    LET r == discover_and_load(Registry, skills_dir)
    IN /\ call' = [op |-> "discover_and_load", arg |-> skills_dir]
       /\ Write(r)
       /\ ret' = Returned(r.val)
       /\ UNCHANGED <<filter_fn, verbose, reducer, state, invoked, turns>>

\* A get that pops the entry it returns.
CallGetPop(skill_name) ==
    LET r == get(skill_name)
    IN /\ call' = [op |-> "get", arg |-> skill_name]
       /\ raised' = r.raised
       /\ ret' = IF r.raised = None THEN Returned(r.val) ELSE NoReturn
       /\ skills' = DictDel(skills, skill_name)
       /\ UNCHANGED <<metadata_cache, filter_fn, verbose, reducer, state, invoked, turns>>

CallGet(skill_name) ==
    LET r == get(skill_name)
    IN /\ call' = [op |-> "get", arg |-> skill_name]
       /\ raised' = r.raised
       /\ ret' = IF r.raised = None THEN Returned(r.val) ELSE NoReturn
       /\ UNCHANGED <<skills, metadata_cache, filter_fn, verbose, reducer, state, invoked, turns>>

CallGetMetadata(skill_name) ==
    LET r == get_metadata(skill_name)
    IN /\ call' = [op |-> "get_metadata", arg |-> skill_name]
       /\ raised' = r.raised
       /\ ret' = IF r.raised = None THEN Returned(r.val) ELSE NoReturn
       /\ UNCHANGED <<skills, metadata_cache, filter_fn, verbose, reducer, state, invoked, turns>>

CallListSkills(f) ==
    /\ call' = [op |-> "list_skills", arg |-> f]
    /\ Read(list_skills(f))
    /\ UNCHANGED <<filter_fn, verbose, reducer, state, invoked, turns>>

CallGetAllLoaderTools(f) ==
    /\ call' = [op |-> "get_all_loader_tools", arg |-> f]
    /\ Read(get_all_loader_tools(f))
    /\ UNCHANGED <<filter_fn, verbose, reducer, state, invoked, turns>>

CallGetAllTools(f) ==
    /\ call' = [op |-> "get_all_tools", arg |-> f]
    /\ Read(get_all_tools(f))
    /\ UNCHANGED <<filter_fn, verbose, reducer, state, invoked, turns>>

CallGetToolsForSkills(skill_names) ==
    /\ call' = [op |-> "get_tools_for_skills", arg |-> skill_names]
    /\ Read(get_tools_for_skills(skill_names))
    /\ UNCHANGED <<filter_fn, verbose, reducer, state, invoked, turns>>

\* A call through the middleware: r is its outcome.
Serve(r) ==
    /\ raised' = r.raised
    /\ ret' = [kind |-> IF r.raised = None THEN "returned" ELSE "raised",
               val |-> r.val, handled |-> r.handled, logged |-> r.logged,
               request |-> r.request]
    /\ UNCHANGED <<skills, metadata_cache, filter_fn, verbose, reducer, state, invoked, turns>>

CallWrapModelCall(request, handler) ==
    /\ call' = [op |-> "wrap_model_call", arg |-> request, handler |-> handler]
    /\ Serve(wrap_model_call(Middleware, request, handler))

CallAwrapModelCall(request, handler) ==
    /\ call' = [op |-> "awrap_model_call", arg |-> request, handler |-> handler]
    /\ Serve(awrap_model_call(Middleware, request, handler))

CallGetToolsForState(skills_loaded) ==
    LET r == get_tools_for_state(Middleware, skills_loaded)
    IN /\ call' = [op |-> "get_tools_for_state", arg |-> skills_loaded]
       /\ raised' = None
       /\ ret' = [kind |-> "returned", val |-> r.val, logged |-> r.logged]
       /\ UNCHANGED <<skills, metadata_cache, filter_fn, verbose, reducer, state, invoked, turns>>

CallRateLimitedWrapModelCall(request, handler) ==
    /\ call' = [op |-> "rate_limited_wrap_model_call", arg |-> request, handler |-> handler]
    /\ Serve(rate_limited_wrap_model_call(Middleware, request, handler))

CallRateLimitedAwrapModelCall(request, handler) ==
    /\ call' = [op |-> "rate_limited_awrap_model_call", arg |-> request, handler |-> handler]
    /\ Serve(rate_limited_awrap_model_call(Middleware, request, handler))

CallSearch(query, tags, visibility) ==
    /\ call' = [op |-> "search", arg |-> [query |-> query, tags |-> tags, visibility |-> visibility]]
    /\ Read(search(query, tags, visibility))
    /\ UNCHANGED <<filter_fn, verbose, reducer, state, invoked, turns>>

\* The registry's operations.
Next ==
    \/ \E skill \in Skills : CallRegister(skill)
    \/ \E skill_name \in LookupNames : CallUnregister(skill_name)
    \/ \E skills_dir \in SkillsDirs : CallDiscover(skills_dir)
    \/ \E skill_name \in LookupNames : CallGet(skill_name)
    \/ \E skill_name \in LookupNames : CallGetMetadata(skill_name)
    \/ \E f \in MetaFilters : CallListSkills(f)
    \/ \E f \in MetaFilters : CallGetAllLoaderTools(f)
    \/ \E f \in MetaFilters : CallGetAllTools(f)
    \/ \E skill_names \in UnlockedLists : CallGetToolsForSkills(skill_names)

Spec == Init /\ [][Next]_vars

\* SkillRegistry(), with a middleware built over it with any filter_fn.
InitMiddleware ==
    /\ skills = <<>>
    /\ metadata_cache = <<>>
    /\ filter_fn \in ToolFilters
    /\ reducer = DefaultReducer
    /\ state = SkillState
    /\ verbose = FALSE
    /\ invoked = {}
    /\ turns = <<>>
    /\ call = [op |-> "init", arg |-> None]
    /\ ret = Returned(None)
    /\ raised = None

\* The registry is populated and the middlewares serve model calls.
NextMiddleware ==
    \/ \E skill \in {c \in ValidSkills : c.name \in UnlockNames} : CallRegister(skill)
    \/ \E skill_name \in SkillNames \cap UnlockNames : CallUnregister(skill_name)
    \/ \E request \in Requests, handler \in Handlers : CallWrapModelCall(request, handler)
    \/ \E request \in Requests, handler \in Handlers : CallAwrapModelCall(request, handler)
    \/ \E skills_loaded \in UnlockedLists : CallGetToolsForState(skills_loaded)

SpecMiddleware == InitMiddleware /\ [][NextMiddleware]_vars

\* Serving: a registry built by register and unregister, then one read of
\* the registry or one call through a middleware built over it with any
\* verbose and filter_fn, for a session that has unlocked something. A read
\* or a call ends the behaviour: what it does depends on the registry, the
\* middleware and its arguments only.
ServingSkills ==
    { [name |-> "X", description |-> "d", enabled |-> TRUE,  ntools |-> MaxTools, has_loader |-> TRUE],
      [name |-> "Y", description |-> "d", enabled |-> FALSE, ntools |-> MaxTools, has_loader |-> TRUE],
      [name |-> "Z", description |-> "d", enabled |-> TRUE,  ntools |-> MaxTools, has_loader |-> TRUE,
       tags |-> <<"t">>, visibility |-> "internal"] }
InitServing ==
    /\ skills = <<>>
    /\ metadata_cache = <<>>
    /\ filter_fn \in ToolFilters
    /\ verbose \in BOOLEAN
    /\ reducer = DefaultReducer
    /\ state = [skills_loaded |-> Py(<<"X">>)]
    /\ invoked = {}
    /\ turns = <<>>
    /\ call = [op |-> "init", arg |-> None]
    /\ ret = Returned(None)
    /\ raised = None

Building == call.op \in {"init", "register", "unregister"}

NextServing ==
    \/ \E skill \in ServingSkills : Building /\ CallRegister(skill)
    \/ \E skill_name \in {"X", "Z"} : Building /\ CallUnregister(skill_name)
    \/ \E skill_name \in LookupNames : Building /\ CallGet(skill_name)
    \/ \E skill_name \in LookupNames : Building /\ CallGetMetadata(skill_name)
    \/ \E f \in MetaFilters : Building /\ CallListSkills(f)
    \/ \E query \in SearchQueries, tags \in SearchTags, visibility \in SearchVisibilities :
          Building /\ CallSearch(query, tags, visibility)
    \/ \E f \in MetaFilters : Building /\ CallGetAllLoaderTools(f)
    \/ \E f \in MetaFilters : Building /\ CallGetAllTools(f)
    \/ \E skill_names \in UnlockedLists : Building /\ CallGetToolsForSkills(skill_names)
    \/ \E request \in Requests, handler \in Handlers :
          Building /\ CallWrapModelCall(request, handler)
    \/ \E request \in Requests, handler \in Handlers :
          Building /\ CallAwrapModelCall(request, handler)
    \/ \E request \in Requests, handler \in Handlers :
          Building /\ CallRateLimitedWrapModelCall(request, handler)
    \/ \E request \in Requests, handler \in Handlers :
          Building /\ CallRateLimitedAwrapModelCall(request, handler)
    \/ \E skills_loaded \in UnlockedLists : Building /\ CallGetToolsForState(skills_loaded)

SpecServing == InitServing /\ [][NextServing]_vars

\* ------------------------------------------------- searches of a registry
\* The skills searched: alpha tagged math, beta tagged text and disabled,
\* Gamma with the descriptor's defaults.
SearchSkills ==
    { [name |-> "alpha", description |-> "Adds", enabled |-> TRUE, ntools |-> 1,
       has_loader |-> TRUE, tags |-> <<"math">>, visibility |-> "public"],
      [name |-> "beta", description |-> "Text", enabled |-> FALSE, ntools |-> 1,
       has_loader |-> TRUE, tags |-> <<"text", "t">>, visibility |-> "internal"],
      [name |-> "Gamma", description |-> "ALgebra", enabled |-> TRUE, ntools |-> 1,
       has_loader |-> TRUE] }

InitSearch ==
    /\ skills = <<>>
    /\ metadata_cache = <<>>
    /\ filter_fn = None
    /\ verbose = FALSE
    /\ reducer = DefaultReducer
    /\ state = SkillState
    /\ invoked = {}
    /\ turns = <<>>
    /\ call = [op |-> "init", arg |-> None]
    /\ ret = Returned(None)
    /\ raised = None

NextSearch ==
    \/ \E skill \in SearchSkills : Building /\ CallRegister(skill)
    \/ \E skill_name \in {"alpha", "beta", "Gamma"} : Building /\ CallUnregister(skill_name)
    \/ \E query \in SearchQueries, tags \in SearchTags, visibility \in SearchVisibilities :
          Building /\ CallSearch(query, tags, visibility)

SpecSearch == InitSearch /\ [][NextSearch]_vars

\* Discovery over every kind of directory entry, on a registry that may hold
\* entries already. What discover_and_load does depends on the registry and
\* the directory only, and every registry it leaves is one that register
\* leaves too, so a behaviour ends with its discovery.
CandidateDirs == SeqsUpTo(DirEntries, MaxCandidates) \cup {NoDir}
PreRegistered ==
    { [name |-> "Z", description |-> "d", enabled |-> TRUE,  ntools |-> MaxTools, has_loader |-> TRUE],
      [name |-> "X", description |-> "d", enabled |-> FALSE, ntools |-> MaxTools, has_loader |-> TRUE] }
NextDiscover ==
    \/ \E skill \in PreRegistered :
          call.op # "discover_and_load" /\ CallRegister(skill)
    \/ \E skills_dir \in CandidateDirs :
          call.op # "discover_and_load" /\ CallDiscover(skills_dir)

SpecDiscover == Init /\ [][NextDiscover]_vars

\* One call of a reducer of state.py on inputs drawn at the start: `call`
\* holds the pending call, then the call made.
ReducerCalls == [reducer : Reducers, current : PyLists, new : PyLists]
InitReducers ==
    /\ skills = <<>>
    /\ metadata_cache = <<>>
    /\ filter_fn = None
    /\ reducer = DefaultReducer
    /\ state = SkillState
    /\ verbose = FALSE
    /\ invoked = {}
    /\ turns = <<>>
    /\ call \in [op : {"pending"}, arg : ReducerCalls]
    /\ ret = Returned(None)
    /\ raised = None

Reduce(r) ==
    /\ call' = [call EXCEPT !.op = call.arg.reducer.name]
    /\ raised' = r.raised
    /\ ret' = IF r.raised = None THEN Returned(r.val) ELSE NoReturn
    /\ UNCHANGED <<skills, metadata_cache, filter_fn, verbose, reducer, state, invoked, turns>>

CallSkillListReducer ==
    /\ call.op = "pending" /\ call.arg.reducer.name = "skill_list_reducer"
    /\ Reduce(skill_list_reducer(call.arg.current, call.arg.new))

CallSkillListAccumulator ==
    /\ call.op = "pending" /\ call.arg.reducer.name = "skill_list_accumulator"
    /\ Reduce(skill_list_accumulator(call.arg.current, call.arg.new))

CallSkillListFifo ==
    /\ call.op = "pending" /\ call.arg.reducer.name = "skill_list_fifo"
    /\ Reduce(skill_list_fifo(call.arg.reducer.max_skills, call.arg.current, call.arg.new))

NextReducers ==
    \/ CallSkillListReducer
    \/ CallSkillListAccumulator
    \/ CallSkillListFifo

SpecReducers == InitReducers /\ [][NextReducers]_vars

\* A session: state.skills_loaded starts as [] and every update of it is
\* folded in by the reducer of the state schema.
InitFolds ==
    /\ skills = <<>>
    /\ metadata_cache = <<>>
    /\ filter_fn = None
    /\ reducer \in Reducers
    /\ state = SkillState
    /\ verbose = FALSE
    /\ invoked = {}
    /\ turns = <<>>
    /\ call = [op |-> "init", arg |-> None]
    /\ ret = Returned(None)
    /\ raised = None

Fold(new) ==
    LET r == ApplyReducer(reducer, state.skills_loaded, new)
    IN /\ call' = [op |-> "fold", arg |-> new]
       /\ raised' = r.raised
       /\ ret' = IF r.raised = None THEN Returned(r.val) ELSE NoReturn
       /\ state' = IF r.raised = None
                   THEN [state EXCEPT !.skills_loaded = r.val]
                   ELSE state
       /\ UNCHANGED <<skills, metadata_cache, filter_fn, verbose, reducer, invoked, turns>>

NextFolds == \E new \in Lists : Fold(new)

SpecFolds == InitFolds /\ [][NextFolds]_vars

\* ------------------------------------------------------------------ session
\* The capabilities of the repository's skills directory.
HelloWorldSkill ==
    [name |-> "hello_world", description |-> "d", enabled |-> TRUE, ntools |-> 1, has_loader |-> TRUE]
DataAnalysisSkill ==
    [name |-> "data_analysis", description |-> "d", enabled |-> TRUE, ntools |-> 4, has_loader |-> TRUE]
FileOperationsSkill ==
    [name |-> "file_operations", description |-> "d", enabled |-> TRUE, ntools |-> 4, has_loader |-> TRUE]
PdfProcessingSkill ==
    [name |-> "pdf_processing", description |-> "d", enabled |-> TRUE, ntools |-> 3, has_loader |-> TRUE]
RepoSkills == {HelloWorldSkill, DataAnalysisSkill, FileOperationsSkill, PdfProcessingSkill}

\* What a loader tool returns: a Command with its update of skills_loaded,
\* or a plain string (has_update FALSE).
CommandUpdate(names) == [kind |-> "Command", has_update |-> TRUE, skills_loaded |-> names]
PlainString == [kind |-> "str", has_update |-> FALSE, skills_loaded |-> <<>>]
load_hello_world == PlainString
skill_data_analysis == CommandUpdate(<<"data_analysis">>)
\* The loader of file_operations copied from data_analysis with the name left.
skill_file_operations_copied == CommandUpdate(<<"data_analysis">>)
skill_file_operations == CommandUpdate(<<"file_operations">>)
skill_pdf_processing == CommandUpdate(<<"pdf_processing">>)
\* skill.get_loader_tool().invoke(...)
invoke_loader(skill) ==
    CASE skill.name = "hello_world"     -> load_hello_world
      [] skill.name = "data_analysis"   -> skill_data_analysis
      [] skill.name = "file_operations" -> skill_file_operations
      [] skill.name = "pdf_processing"  -> skill_pdf_processing

\* The skills directory in any iteration order.
RepoDirs ==
    {d \in [1..Cardinality(RepoSkills) -> [kind : {"skill"}, skill : RepoSkills]] :
        \A c \in RepoSkills : \E i \in DOMAIN d : d[i].skill = c}
\* The state schemas create_skill_agent chooses from by state_mode.
StateSchemas ==
    {[name |-> "skill_list_reducer", max_skills |-> 0],
     [name |-> "skill_list_accumulator", max_skills |-> 0],
     [name |-> "skill_list_fifo", max_skills |-> FifoMaxSkills]}

\* create_skill_agent: the registry after discovery, a state schema, a
\* SkillMiddleware, and a session whose skills_loaded is [].
InitSession ==
    /\ \E d \in RepoDirs :
          LET r == discover_and_load([skills |-> <<>>, metadata_cache |-> <<>>], d)
          IN skills = r.skills /\ metadata_cache = r.metadata_cache
    /\ filter_fn = None
    /\ reducer \in StateSchemas
    /\ state = SkillState
    /\ verbose = FALSE
    /\ invoked = {}
    /\ turns = <<>>
    /\ call = [op |-> "init", arg |-> None]
    /\ ret = Returned(None)
    /\ raised = None

\* The request of a model call in the session.
SessionRequest ==
    [state |-> [shape |-> "dict", has |-> TRUE, skills_loaded |-> state.skills_loaded],
     tools |-> <<>>, messages |-> "m"]

\* The model calls the loader tool of an enabled registered skill; a Command's
\* update of skills_loaded is folded in by the schema's reducer.
InvokeLoader(skill_name) ==
    /\ contains(skill_name)
    /\ DictGet(metadata_cache, skill_name).enabled
    /\ LET result == invoke_loader(DictGet(skills, skill_name))
           r == ApplyReducer(reducer, state.skills_loaded, Py(result.skills_loaded))
       IN /\ call' = [op |-> "invoke_loader", arg |-> skill_name]
          /\ ret' = Returned(result)
          /\ raised' = None
          /\ state' = IF result.has_update
                      THEN [state EXCEPT !.skills_loaded = r.val]
                      ELSE state
    /\ invoked' = invoked \cup {skill_name}
    /\ UNCHANGED <<skills, metadata_cache, filter_fn, verbose, reducer, turns>>

\* A model invocation of the session, through SkillMiddleware.
ModelCall ==
    \E handler \in Handlers : CallWrapModelCall(SessionRequest, handler)

NextSession ==
    \/ \E skill_name \in {c.name : c \in RepoSkills} : InvokeLoader(skill_name)
    \/ ModelCall

SpecSession == InitSession /\ [][NextSession]_vars

\* ------------------------------------------- concurrent turns, one middleware
\* The model calls in flight at once through one SkillMiddleware.
MaxSessions == 2
TurnIds == 1 .. MaxSessions
\* What the sessions' states hold under skills_loaded.
SessionLists == {<<>>, <<"X">>, <<"Y">>, <<"Y", "X">>}
\* The request of a turn of a session whose state holds skills_loaded.
TurnRequest(skills_loaded) ==
    [state |-> [shape |-> "dict", has |-> TRUE, skills_loaded |-> Py(skills_loaded)],
     tools |-> <<>>, messages |-> "m"]
\* A call of wrap_model_call that has been entered: its request and its
\* locals, skills_loaded = [] of the first line among them.
EnteredTurns ==
    {[pc |-> "start", request |-> TurnRequest(l), skills_loaded |-> Py(<<>>),
      relevant_tools |-> <<>>, handled |-> <<>>] : l \in SessionLists}
\* The registry the turns are served from: X and Y, enabled.
ServedRegistry ==
    LET X == [name |-> "X", description |-> "d", enabled |-> TRUE,
              ntools |-> MaxTools, has_loader |-> TRUE]
        Y == [name |-> "Y", description |-> "d", enabled |-> TRUE,
              ntools |-> MaxTools, has_loader |-> TRUE]
        r == register([skills |-> <<>>, metadata_cache |-> <<>>], X)
    IN register([skills |-> r.skills, metadata_cache |-> r.metadata_cache], Y)

InitConcurrent ==
    /\ skills = ServedRegistry.skills
    /\ metadata_cache = ServedRegistry.metadata_cache
    /\ filter_fn = None
    /\ verbose = FALSE
    /\ reducer = DefaultReducer
    /\ state = SkillState
    /\ invoked = {}
    /\ turns \in [TurnIds -> EnteredTurns]
    /\ call = [op |-> "init", arg |-> None]
    /\ ret = Returned(None)
    /\ raised = None

\* A middleware that keeps the request in an attribute of its own: the read
\* finds the request of whichever call stored it last.
ReadStateOfInstance(t) ==
    /\ turns[t].pc = "start"
    /\ \E u \in TurnIds :
          turns' = [turns EXCEPT ![t].skills_loaded = read_skills_loaded(turns[u].request),
                                 ![t].pc = "read"]
    /\ call' = [op |-> "read_state", arg |-> t]
    /\ UNCHANGED <<skills, metadata_cache, filter_fn, verbose, reducer, state, invoked,
                   ret, raised>>

\* Turn t reads skills_loaded from the state of its request.
ReadState(t) ==
    /\ turns[t].pc = "start"
    /\ turns' = [turns EXCEPT ![t].skills_loaded = read_skills_loaded(turns[t].request),
                              ![t].pc = "read"]
    /\ call' = [op |-> "read_state", arg |-> t]
    /\ UNCHANGED <<skills, metadata_cache, filter_fn, verbose, reducer, state, invoked,
                   ret, raised>>

\* Turn t computes relevant_tools from the registry.
ComputeTools(t) ==
    /\ turns[t].pc = "read"
    /\ LET r == get_filtered_tools(Middleware, turns[t].skills_loaded)
       IN turns' = IF r.raised # None
                   THEN [turns EXCEPT ![t].pc = "raised"]
                   ELSE [turns EXCEPT ![t].relevant_tools = r.val, ![t].pc = "computed"]
    /\ call' = [op |-> "compute_tools", arg |-> t]
    /\ UNCHANGED <<skills, metadata_cache, filter_fn, verbose, reducer, state, invoked,
                   ret, raised>>

\* Turn t overrides the tools of its request and calls the handler.
Delegate(t) ==
    /\ turns[t].pc = "computed"
    /\ LET filtered_request == override(turns[t].request, turns[t].relevant_tools)
       IN turns' = [turns EXCEPT ![t].handled = <<filtered_request.new>>,
                                 ![t].request = filtered_request.request,
                                 ![t].pc = "done"]
    /\ call' = [op |-> "delegate", arg |-> t]
    /\ UNCHANGED <<skills, metadata_cache, filter_fn, verbose, reducer, state, invoked,
                   ret, raised>>

NextConcurrent ==
    \/ \E t \in TurnIds : ReadState(t)
    \/ \E t \in TurnIds : ComputeTools(t)
    \/ \E t \in TurnIds : Delegate(t)

SpecConcurrent == InitConcurrent /\ [][NextConcurrent]_vars

\* ------------------------------------------ model calls of one session's run
\* The skills registered and unregistered between the model calls of a run.
TurnSkills == {sk \in ValidSkills : sk.name \in {"X", "Y"}}
\* The updates loader tools return between the model calls of a run.
TurnUpdates == {<<"X">>, <<"Y">>}

InitTurns ==
    /\ skills = <<>>
    /\ metadata_cache = <<>>
    /\ filter_fn = None
    /\ verbose = FALSE
    /\ reducer \in Reducers
    /\ state = SkillState
    /\ invoked = {}
    /\ turns = <<>>
    /\ call = [op |-> "init", arg |-> None]
    /\ ret = Returned(None)
    /\ raised = None

\* One model call of the run: wrap_model_call on the request made of the
\* session's state; turns remembers the requests handed to the handler at
\* this model call and at the one before.
Invoke(handler) ==
    LET r == wrap_model_call(Middleware, SessionRequest, handler)
    IN /\ call' = [op |-> "wrap_model_call", arg |-> SessionRequest, handler |-> handler]
       /\ raised' = r.raised
       /\ ret' = [kind |-> IF r.raised = None THEN "returned" ELSE "raised",
                  val |-> r.val, handled |-> r.handled, logged |-> r.logged,
                  request |-> r.request]
       /\ turns' = IF turns = <<>> THEN <<r.handled>>
                 ELSE <<turns[Len(turns)], r.handled>>
       /\ UNCHANGED <<skills, metadata_cache, filter_fn, verbose, reducer, state, invoked>>

NextTurns ==
    \/ \E skill \in TurnSkills : CallRegister(skill)
    \/ \E skill_name \in {"X", "Y"} : CallUnregister(skill_name)
    \/ \E new \in TurnUpdates : Fold(Py(new))
    \/ \E handler \in Handlers : Invoke(handler)

SpecTurns == InitTurns /\ [][NextTurns]_vars

\* --------------------------------------------------- the frontend's server
\* The /message requests the server is sent; FastAPI runs an endpoint written
\* as a plain def on a thread of its pool, one thread a request.
MaxRequests == 2
RequestIds == 1 .. MaxRequests
\* What a turn reports as loaded: result.get("skills_loaded", []) + newly_loaded.
ReportedLists ==
    {<<>>, <<"data_analysis">>, <<"pdf_processing">>,
     <<"pdf_processing", "data_analysis">>, <<"data_analysis", "data_analysis">>}
\* AgentManager(): no agent, nothing loaded, no history.
AgentManager == [agent |-> None, skills_loaded |-> <<>>, history |-> <<>>, resetting |-> FALSE]
\* A request not yet received. Besides the locals of send_message a request
\* has alone: whether, from its first read of manager on, no other request
\* was in flight and no /init ran.
NoRequest == [pc |-> "idle", history |-> <<>>, skills_loaded |-> <<>>,
              reported |-> <<>>, merged |-> <<>>, alone |-> FALSE]
\* The requests whose send_message is between its first read of manager and
\* its last write to it.
InFlight(t) == turns[t].pc \in {"read", "invoked", "merged", "skills_written"}

\* A merge that extends current with new_items as they come.
merge_loaded_skills_extend(current, new_items) == current \o new_items

\* merge_loaded_skills.
RECURSIVE merge_loop(_, _, _)
merge_loop(merged, seen, new_items) ==
    IF new_items = <<>> THEN merged
    ELSE IF Head(new_items) \notin seen
         THEN merge_loop(Append(merged, Head(new_items)), seen \cup {Head(new_items)},
                         Tail(new_items))
         ELSE merge_loop(merged, seen, Tail(new_items))
merge_loaded_skills(current, new_items) == merge_loop(current, Range(current), new_items)

\* The requests in flight are no longer alone.
Overlapped == [u \in DOMAIN turns |->
                 IF InFlight(u) THEN [turns[u] EXCEPT !.alone = FALSE] ELSE turns[u]]

\* extract_history of the messages a turn's agent returns: those it was given
\* and the turn's own user message and reply (t stands for the two).
extract_history(history, t) == Append(history, t)

InitFrontend ==
    /\ skills = <<>>
    /\ metadata_cache = <<>>
    /\ filter_fn = None
    /\ verbose = FALSE
    /\ reducer = DefaultReducer
    /\ state = AgentManager
    /\ invoked = {}
    /\ turns = [t \in RequestIds |-> NoRequest]
    /\ call = [op |-> "init", arg |-> None]
    /\ ret = Returned(None)
    /\ raised = None

\* /init up to manager.loader_tool_map = ...: the agent is there.
InitAgentCreate ==
    /\ ~state.resetting
    /\ state' = [state EXCEPT !.agent = "agent", !.resetting = TRUE]
    /\ turns' = Overlapped
    /\ call' = [op |-> "create_skill_agent", arg |-> None]
    /\ UNCHANGED <<skills, metadata_cache, filter_fn, verbose, reducer, invoked, ret, raised>>

\* /init from manager.skills_loaded = [] on.
InitAgentReset ==
    /\ state.resetting
    /\ state' = [state EXCEPT !.skills_loaded = <<>>, !.history = <<>>, !.resetting = FALSE]
    /\ turns' = Overlapped
    /\ call' = [op |-> "init_agent", arg |-> None]
    /\ UNCHANGED <<skills, metadata_cache, filter_fn, verbose, reducer, invoked, ret, raised>>

\* send_message up to agent.invoke: 400 when there is no agent, else
\* manager.history and manager.skills_loaded are read for the call.
ReadManager(t) ==
    /\ turns[t].pc = "idle"
    /\ turns' = IF state.agent = None
                THEN [turns EXCEPT ![t].pc = "refused"]
                ELSE [Overlapped EXCEPT
                        ![t].pc = "read",
                        ![t].history = state.history,
                        ![t].skills_loaded = state.skills_loaded,
                        ![t].alone = /\ ~state.resetting
                                     /\ \A u \in DOMAIN turns : ~InFlight(u)]
    /\ call' = [op |-> "read_manager", arg |-> t]
    /\ UNCHANGED <<skills, metadata_cache, filter_fn, verbose, reducer, state, invoked,
                   ret, raised>>

\* manager.agent.invoke returns: what the result and its loader tool calls
\* report as loaded.
AgentInvoke(t, reported) ==
    /\ turns[t].pc = "read"
    /\ turns' = [turns EXCEPT ![t].pc = "invoked", ![t].reported = reported]
    /\ call' = [op |-> "invoke", arg |-> t]
    /\ UNCHANGED <<skills, metadata_cache, filter_fn, verbose, reducer, state, invoked,
                   ret, raised>>

\* merge_loaded_skills(manager.skills_loaded, ...) is evaluated.
MergeLoaded(t) ==
    /\ turns[t].pc = "invoked"
    /\ turns' = [turns EXCEPT ![t].pc = "merged",
                              ![t].merged = merge_loaded_skills(state.skills_loaded,
                                                                turns[t].reported)]
    /\ call' = [op |-> "merge_loaded_skills", arg |-> t]
    /\ UNCHANGED <<skills, metadata_cache, filter_fn, verbose, reducer, state, invoked,
                   ret, raised>>

\* manager.skills_loaded = <the merged list>.
WriteSkills(t) ==
    /\ turns[t].pc = "merged"
    /\ state' = [state EXCEPT !.skills_loaded = turns[t].merged]
    /\ turns' = [turns EXCEPT ![t].pc = "skills_written"]
    /\ call' = [op |-> "write_skills", arg |-> t]
    /\ UNCHANGED <<skills, metadata_cache, filter_fn, verbose, reducer, invoked, ret, raised>>

\* manager.history = extract_history(result_messages), and the response:
\* send_message returns and its locals are gone.
WriteHistory(t) ==
    /\ turns[t].pc = "skills_written"
    /\ state' = [state EXCEPT !.history = extract_history(turns[t].history, t)]
    /\ turns' = [turns EXCEPT ![t] = [NoRequest EXCEPT !.pc = "done"]]
    /\ call' = [op |-> "write_history", arg |-> t]
    /\ UNCHANGED <<skills, metadata_cache, filter_fn, verbose, reducer, invoked, ret, raised>>

NextFrontend ==
    \/ InitAgentCreate
    \/ InitAgentReset
    \/ \E t \in RequestIds : ReadManager(t)
    \/ \E t \in RequestIds, reported \in ReportedLists : AgentInvoke(t, reported)
    \/ \E t \in RequestIds : MergeLoaded(t)
    \/ \E t \in RequestIds : WriteSkills(t)
    \/ \E t \in RequestIds : WriteHistory(t)

SpecFrontend == InitFrontend /\ [][NextFrontend]_vars

\* ------------------------------------------------- create_skill_agent
\* The largest max_concurrent_skills a config is given.
MaxConfigured == 3
\* SkillSystemConfig: the fields create_skill_agent reads.
Configs ==
    [state_mode : {"replace", "accumulate", "fifo"},
     max_concurrent_skills : 1 .. MaxConfigured,
     filter_by_visibility : BOOLEAN]
\* combined_filter of create_skill_agent called without filter_fn.
combined_filter(config) ==
    IF config.filter_by_visibility THEN "visibility_filter" ELSE "visibility_filter_off"
\* create_skill_agent on the registry as discovery left it: the tools the
\* agent is created with, the reducer of the state schema chosen, and the
\* SkillMiddleware.
create_skill_agent(config) ==
    [all_tools |-> get_all_tools(combined_filter(config)),
     state_schema |->
        CASE config.state_mode = "replace" ->
                [name |-> "skill_list_reducer", max_skills |-> 0]
          [] config.state_mode = "accumulate" ->
                [name |-> "skill_list_accumulator", max_skills |-> 0]
          [] config.state_mode = "fifo" ->
                [name |-> "skill_list_fifo", max_skills |-> FifoMaxSkills],
     middleware |-> [verbose |-> FALSE, filter_fn |-> combined_filter(config)]]
\* The updates the loader tools of an agent's session return.
AgentUpdates == {<<"X">>, <<"Z">>, <<"Y", "Z">>, <<"ghost">>}

InitAgent ==
    /\ skills = <<>>
    /\ metadata_cache = <<>>
    /\ \E config \in Configs :
          /\ filter_fn = create_skill_agent(config).middleware.filter_fn
          /\ verbose = create_skill_agent(config).middleware.verbose
          /\ reducer = create_skill_agent(config).state_schema
    /\ state = SkillState
    /\ invoked = {}
    /\ turns = <<>>
    /\ call = [op |-> "init", arg |-> None]
    /\ ret = Returned(None)
    /\ raised = None

\* Discovery registers the skills, then the agent's session runs: updates
\* are folded into skills_loaded and the model is called through the
\* middleware.
NextAgent ==
    \/ \E skill \in ServingSkills : Building /\ CallRegister(skill)
    \/ \E new \in AgentUpdates : Fold(Py(new))
    \/ \E handler \in Handlers : CallWrapModelCall(SessionRequest, handler)

SpecAgent == InitAgent /\ [][NextAgent]_vars

\* ------------------------------------------------------------------ claims
Without(s, x) == SelectSeq(s, LAMBDA y : y # x)
NoDup(s) == \A i, j \in DOMAIN s : i # j => s[i] # s[j]
RECURSIVE Dedup(_)
Dedup(s) ==
    IF s = <<>> THEN <<>>
    ELSE LET front == Dedup(SubSeq(s, 1, Len(s) - 1))
         IN IF InSeq(s[Len(s)], front) THEN front ELSE Append(front, s[Len(s)])
IsRegistered(c) == DictHas(skills, c.name) /\ DictGet(skills, c.name) = c

\* C1: in every registry state and for every unlocked-names list L, a regular
\* operation handle of a capability is in get_tools_for_skills(L) if and only
\* if that capability is registered, enabled and named in L.
C1_RegularOpsIffUnlocked ==
    \A L \in UnlockedLists :
        LET result == Range(get_tools_for_skills(L))
        IN \A c \in Skills : \A t \in Range(get_tools(c)) :
            t \in result <=> (IsRegistered(c) /\ c.enabled /\ InSeq(c.name, L))

\* C1 witness: an assembly that exposes one registered enabled capability's
\* operations and withholds those of another that is not in the list.
C1_Witness ==
    /\ call.op = "get_tools_for_skills"
    /\ \E c, d \in ValidSkills :
        /\ IsRegistered(c) /\ c.enabled /\ InSeq(c.name, call.arg)
        /\ IsRegistered(d) /\ d.enabled /\ ~InSeq(d.name, call.arg)
        /\ \A t \in Range(get_tools(c)) : InSeq(t, ret.val)
        /\ \A t \in Range(get_tools(d)) : ~InSeq(t, ret.val)

\* C2: for every descriptor predicate and every unlocked-names list (the
\* empty one included), the loader handle of every enabled capability that
\* the predicate lists is in get_tools_for_skills of that list.
C2_LoaderAlwaysVisible ==
    \A L \in UnlockedLists :
        LET result == Range(get_tools_for_skills(L))
        IN \A f \in MetaFilters : \A i \in DOMAIN skills :
            (skills[i].val.enabled /\ InSeq(skills[i].key, list_skills(f)))
                => get_loader_tool(skills[i].val) \in result

\* C2 witness: an assembly for a list that does not name an enabled
\* registered capability, whose loader is in the result all the same.
C2_Witness ==
    /\ call.op = "get_tools_for_skills"
    /\ \E i \in DOMAIN skills :
        /\ skills[i].val.enabled
        /\ ~InSeq(skills[i].key, call.arg)
        /\ InSeq(get_loader_tool(skills[i].val), ret.val)
        /\ Len(skills) > 1

\* C3: when the middleware was built with a filter predicate, no operation
\* for which that predicate is false is in the request that wrap_model_call
\* or awrap_model_call hands to the handler.
C3_MiddlewareAppliesFilter ==
    (call.op \in {"wrap_model_call", "awrap_model_call"} /\ filter_fn # None)
        => \A i \in DOMAIN ret.handled :
              \A t \in Range(ret.handled[i].tools) : ApplyToolFilter(filter_fn, t)

\* C4: a repeated name adds nothing: get_tools_for_skills of a list equals
\* get_tools_for_skills of the list with repeated names removed, and no
\* handle occurs in it more than once.
C4_RepeatedNameAddsNothing ==
    call.op = "get_tools_for_skills"
        => /\ ret.val = get_tools_for_skills(Dedup(call.arg))
           /\ NoDup(ret.val)

\* C5, the result: an unregistered name in the list changes nothing.
C5_UnknownNameIgnored ==
    \A L \in UnlockedLists : \A u \in UnlockNames :
        ~contains(u) => get_tools_for_skills(L) = get_tools_for_skills(Without(L, u))
\* C5, the call: it raises nothing, returns that result and writes nothing.
C5_CallIsQuiet ==
    call'.op = "get_tools_for_skills"
        => /\ raised' = None
           /\ ret' = Returned(get_tools_for_skills(call'.arg))
           /\ UNCHANGED <<skills, metadata_cache>>
\* C5: an unregistered name in the list is ignored: the result equals that of
\* the list without the name, and the call raises nothing and leaves both
\* registry maps as they were.
C5_LenientUnlockLookup == [](C5_UnknownNameIgnored) /\ [][C5_CallIsQuiet]_vars

\* C5 witness: an assembly for a list with an unregistered name followed by
\* the name of a registered enabled capability, whose operations are returned.
C5_Witness ==
    /\ call.op = "get_tools_for_skills"
    /\ raised = None
    /\ Len(call.arg) = 2
    /\ ~contains(call.arg[1])
    /\ contains(call.arg[2])
    /\ get(call.arg[2]).val.enabled
    /\ \A t \in Range(get_tools(get(call.arg[2]).val)) : InSeq(t, ret.val)
    /\ ret.val = get_tools_for_skills(<<call.arg[2]>>)

KeySet(d) == Range(DictKeys(d))
\* C6: the registry is created empty, and after every register, unregister
\* and discover_and_load the descriptor cache and the capability store have
\* the same key set.
C6_KeySetsEqual ==
    (Len(skills) = 0 /\ Len(metadata_cache) = 0)
        /\ [](KeySet(skills) = KeySet(metadata_cache))

\* C6 witness: an unregister has removed one of two entries and the key sets
\* of both maps are the one remaining name.
C6_Witness ==
    /\ call.op = "unregister"
    /\ ret.logged
    /\ Len(skills) = 1
    /\ KeySet(metadata_cache) = KeySet(skills)
    /\ call.arg \notin KeySet(skills)

\* C7, one step: a register of a capability that fails validation.
C7_FailedRegister ==
    (call'.op = "register" /\ validate(call'.arg) # None)
        => /\ raised' = "SkillLoadError"
           /\ UNCHANGED <<skills, metadata_cache>>
\* C7: a register that fails validation signals a LoadError and leaves both
\* registry maps exactly as before the call.
C7_ValidationSignalsLoadError == [][C7_FailedRegister]_vars

\* C8, the state after a register.
C8_AfterRegister ==
    call.op = "register" =>
        /\ (validate(call.arg) = None => raised = None)
        /\ raised = None =>
            /\ contains(call.arg.name)
            /\ get(call.arg.name) = [raised |-> None, val |-> call.arg]
            /\ get_metadata(call.arg.name) = [raised |-> None, val |-> metadata(call.arg)]
\* C8, the count across a register: an overwrite (warned) keeps it.
C8_OverwriteKeepsCount ==
    (call'.op = "register" /\ raised' = None)
        => /\ contains(call'.arg.name) => (len' = len /\ ret'.warned)
           /\ ~contains(call'.arg.name) => (len' = len + 1 /\ ~ret'.warned)
\* C8: a register of a capability that passes validation is not an error,
\* also when the name is present; after it the name is contained, get returns
\* the capability and get_metadata its descriptor; an overwrite leaves the
\* number of names unchanged.
C8_RegisterLastWins == [](C8_AfterRegister) /\ [][C8_OverwriteKeepsCount]_vars

\* C8 witness: a register that overwrote an entry (the warning was logged) in
\* a registry of two names; get returns the capability just registered.
C8_Witness ==
    /\ call.op = "register"
    /\ raised = None
    /\ ret.warned
    /\ len = 2
    /\ get(call.arg.name).val = call.arg
    /\ ~call.arg.enabled

\* C9, every absent name: both lookups raise and return nothing.
C9_AbsentRaises ==
    \A n \in LookupNames : ~contains(n) =>
        /\ get(n) = [raised |-> "SkillNotFoundError", val |-> NoSkill]
        /\ get_metadata(n) = [raised |-> "SkillNotFoundError", val |-> NoSkill]
\* C9, the state after a lookup of an absent name.
C9_AfterLookup ==
    (call.op \in {"get", "get_metadata"} /\ ~contains(call.arg))
        => (raised = "SkillNotFoundError" /\ ret = NoReturn)
\* C9, one step: a lookup writes nothing.
C9_LookupWritesNothing ==
    call'.op \in {"get", "get_metadata"} => UNCHANGED <<skills, metadata_cache>>
\* C9: get and get_metadata of a name that is not registered signal
\* SkillNotFoundError, return nothing, and leave the registry unchanged.
C9_StrictLookups ==
    [](C9_AbsentRaises /\ C9_AfterLookup) /\ [][C9_LookupWritesNothing]_vars

\* C9 witness: get_metadata of an absent name has raised in a registry that
\* holds other names.
C9_Witness ==
    /\ call.op = "get_metadata"
    /\ call.arg \in SkillNames
    /\ ~contains(call.arg)
    /\ raised = "SkillNotFoundError"
    /\ len > 0

\* C10, one step: what an unregister changes and what it leaves.
C10_Step ==
    call'.op = "unregister" =>
        LET n == call'.arg
        IN /\ raised' = None
           /\ ~DictHas(skills', n) /\ ~DictHas(metadata_cache', n)
           /\ DictKeys(skills') = Without(DictKeys(skills), n)
           /\ DictKeys(metadata_cache') = Without(DictKeys(metadata_cache), n)
           /\ \A k \in KeySet(skills) \ {n} :
                /\ DictGet(skills', k) = DictGet(skills, k)
                /\ DictGet(metadata_cache', k) = DictGet(metadata_cache, k)
           /\ ~DictHas(skills, n) => UNCHANGED <<skills, metadata_cache>>
\* C10, every state: a second unregister of the same name changes nothing.
C10_Idempotent ==
    \A n \in LookupNames :
        LET once == unregister(Registry, n)
            twice == unregister([skills |-> once.skills,
                                 metadata_cache |-> once.metadata_cache], n)
        IN /\ twice.raised = None
           /\ twice.skills = once.skills
           /\ twice.metadata_cache = once.metadata_cache
\* C10: unregister removes the name from both maps and leaves every other
\* entry and the order of the remaining names unchanged; for an absent name
\* it changes nothing; it never raises, and applying it twice is applying it
\* once.
C10_UnregisterFrame == [](C10_Idempotent) /\ [][C10_Step]_vars

\* C10 witness: an unregister has removed one of three names and the other
\* two are left.
C10_Witness ==
    /\ call.op = "unregister"
    /\ raised = None
    /\ ret.logged
    /\ len = 2
    /\ ~contains(call.arg)

\* C11, the subdirectories of the directory that load and register.
LoadsAndRegisters(entry) == entry.kind = "skill" /\ validate(entry.skill) = None
\* C11, one discover_and_load step.
C11_Step ==
    call'.op = "discover_and_load" =>
        LET dir == call'.arg
            ok == {i \in DOMAIN dir : LoadsAndRegisters(dir[i])}
            last(i) == \A j \in ok : dir[j].skill.name = dir[i].skill.name => j <= i
            okNames == {dir[i].skill.name : i \in ok}
        IN /\ raised' = None
           /\ ret' = Returned(Cardinality(ok))
           /\ \A i \in ok : last(i) =>
                  /\ DictHas(skills', dir[i].skill.name)
                  /\ DictGet(skills', dir[i].skill.name) = dir[i].skill
                  /\ DictGet(metadata_cache', dir[i].skill.name) = metadata(dir[i].skill)
           /\ SubSeq(DictKeys(skills'), 1, Len(skills)) = DictKeys(skills)
           /\ SubSeq(DictKeys(metadata_cache'), 1, Len(skills)) = DictKeys(metadata_cache)
           /\ \A n \in KeySet(skills) \ okNames :
                  /\ DictGet(skills', n) = DictGet(skills, n)
                  /\ DictGet(metadata_cache', n) = DictGet(metadata_cache, n)
           /\ KeySet(skills') = KeySet(skills) \cup okNames

C12_ResultHasNoDuplicates ==
    ( /\ call.op \in {"skill_list_accumulator", "skill_list_fifo"}
      /\ ~call.arg.current.is_none /\ ~call.arg.new.is_none
      /\ NoDup(call.arg.current.items) )
    => /\ raised = None
       /\ ~ret.val.is_none
       /\ NoDup(ret.val.items)

\* C13: with the reducer of skill_list_fifo(max_skills), max_skills >= 1,
\* skills_loaded holds at most max_skills names after every fold of a
\* session that starts with the empty list, whatever the updates are.
C13_FifoBounded ==
    (reducer.name = "skill_list_fifo" /\ reducer.max_skills >= 1)
    => Len(state.skills_loaded.items) <= reducer.max_skills

\* A fold of an update longer than max_skills has left exactly max_skills names.
C13_Witness ==
    /\ reducer.name = "skill_list_fifo" /\ reducer.max_skills >= 1
    /\ call.op = "fold"
    /\ Len(call.arg.items) > reducer.max_skills
    /\ Len(state.skills_loaded.items) = reducer.max_skills

\* C14, one fold.
C14_Step ==
    (reducer.name \in {"skill_list_reducer", "skill_list_accumulator"} /\ call'.op = "fold")
    => Range(state.skills_loaded.items) \subseteq Range(state'.skills_loaded.items)

\* C14: under skill_list_reducer and skill_list_accumulator every name in
\* skills_loaded before a fold is in skills_loaded after it.
C14_NeverShrinks == [][C14_Step]_vars

\* None read as the empty list.
AsList(v) == IF v.is_none THEN Py(<<>>) ELSE v
Min(a, b) == IF a < b THEN a ELSE b

\* C15: each of skill_list_reducer, skill_list_accumulator and the
\* skill_list_fifo reducers returns a list and raises nothing for every
\* current and new, None and [] included, and gives for None what it gives
\* for [].
C15_ReducersTotal ==
    call.op \in {"skill_list_reducer", "skill_list_accumulator", "skill_list_fifo"}
    => /\ raised = None
       /\ ~ret.val.is_none
       /\ ret.val = ApplyReducer(call.arg.reducer, AsList(call.arg.current),
                                 AsList(call.arg.new)).val

C17_Fifo ==
    ( /\ call.op = "skill_list_fifo"
      /\ call.arg.reducer.max_skills >= 1
      /\ ~call.arg.current.is_none /\ ~call.arg.new.is_none )
    => LET max_size == call.arg.reducer.max_skills
           from == IF call.arg.current.items = <<>>
                   THEN call.arg.new.items
                   ELSE skill_list_accumulator(call.arg.current, call.arg.new).val.items
           skip == IF call.arg.current.items = <<>>
                   THEN 0
                   ELSE Len(from) - Min(max_size, Len(from))
       IN /\ raised = None
          /\ ~ret.val.is_none
          /\ Len(ret.val.items) = Min(max_size, Len(from))
          /\ \A i \in DOMAIN ret.val.items : ret.val.items[i] = from[skip + i]

\* fifo(2)(["a","b"], ["c"]) == ["b","c"].
C17_Witness ==
    /\ call.op = "skill_list_fifo"
    /\ call.arg.reducer.max_skills = 2
    /\ call.arg.current = Py(<<"a", "b">>)
    /\ call.arg.new = Py(<<"c">>)
    /\ ret = Returned(Py(<<"b", "c">>))

\* C18: skill_list_reducer(current, new) is new for every current: the
\* result is the same for any other current, and holds no name that is not
\* in new.
C18_Replace ==
    call.op = "skill_list_reducer"
    => /\ raised = None
       /\ ret.val = call.arg.new
       /\ \A other \in PyLists : skill_list_reducer(other, call.arg.new).val = ret.val
       /\ Range(ret.val.items) \subseteq Range(call.arg.new.items)

\* A replace that drops the names of a non-empty current.
C18_Witness ==
    /\ call.op = "skill_list_reducer"
    /\ call.arg.current = Py(<<"a", "b">>)
    /\ call.arg.new = Py(<<"c">>)
    /\ ret = Returned(Py(<<"c">>))

\* C19, the list of a session is a fixed point of the empty update.
C19_FixedPoint ==
    reducer.name \in {"skill_list_accumulator", "skill_list_fifo"}
    => ApplyReducer(reducer, state.skills_loaded, Py(<<>>))
         = [raised |-> None, val |-> state.skills_loaded]
\* C19, a fold of the empty update.
C19_Step ==
    ( /\ reducer.name \in {"skill_list_accumulator", "skill_list_fifo"}
      /\ call'.op = "fold" /\ call'.arg = Py(<<>>) )
    => /\ state' = state
       /\ raised' = None

\* C19: under skill_list_accumulator and the skill_list_fifo reducers, every
\* list L a session reaches has reducer(L, []) == L, so folding the empty
\* update once or repeatedly leaves skills_loaded as it is.
C19_EmptyUpdateIdempotent == [](C19_FixedPoint) /\ [][C19_Step]_vars

\* The empty update folded into a full FIFO list.
C19_Witness ==
    /\ reducer.name = "skill_list_fifo"
    /\ call.op = "fold" /\ call.arg = Py(<<>>)
    /\ reducer.max_skills = 2
    /\ Len(state.skills_loaded.items) = 2

\* C20, the regular tools the next model invocation of the session is given.
NextExposed ==
    UNION {Range(r.tools) : r \in Range(wrap_model_call(Middleware, SessionRequest, "responds").handled)}

\* C20: when the model invokes the loader tool of a registered enabled
\* skill, the loader returns an update of skills_loaded that holds the
\* skill's name; once folded, the name is in skills_loaded and the skill's
\* regular tools are among the tools of the next model invocation. This
\* holds for each skill of the skills directory.
C20_LoaderUnlocks ==
    call.op = "invoke_loader" =>
        LET skill == DictGet(skills, call.arg)
        IN /\ ret.val.has_update
           /\ InSeq(call.arg, ret.val.skills_loaded)
           /\ InSeq(call.arg, state.skills_loaded.items)
           /\ Range(get_tools(skill)) \subseteq NextExposed

\* C21, the skills whose regular tools a request handed to the handler holds.
OwnersExposed(handled) ==
    {t.owner.name : t \in {u \in UNION {Range(r.tools) : r \in Range(handled)} : u.kind = "tool"}}
\* C21, in every state of the session.
C21_UnlockedWasLoaded ==
    /\ Range(state.skills_loaded.items) \subseteq invoked
    /\ call.op = "wrap_model_call" => OwnersExposed(ret.handled) \subseteq invoked
\* C21, one step of the session.
C21_Step ==
    /\ call'.op = "invoke_loader" => Range(ret'.val.skills_loaded) \subseteq {call'.arg}
    /\ Range(state'.skills_loaded.items) \ Range(state.skills_loaded.items) # {}
         => /\ call'.op = "invoke_loader"
            /\ Range(state'.skills_loaded.items) \ Range(state.skills_loaded.items) = {call'.arg}

\* C21: in a session that starts with skills_loaded = [], a name enters
\* skills_loaded only by a call of that skill's own loader tool: at every
\* model invocation each skill whose regular tools are handed to the handler
\* has had its loader called before, and a loader's update names no skill
\* but its own.
C21_OnlyLoaderUnlocks == [](C21_UnlockedWasLoaded) /\ [][C21_Step]_vars

\* A model invocation that exposes the tools of data_analysis after its
\* loader was called, while pdf_processing was never loaded.
C21_Witness ==
    /\ call.op = "wrap_model_call"
    /\ "data_analysis" \in OwnersExposed(ret.handled)
    /\ "data_analysis" \in invoked
    /\ "pdf_processing" \notin invoked

\* The calls through a middleware.
ModelCallOps ==
    {"wrap_model_call", "awrap_model_call",
     "rate_limited_wrap_model_call", "rate_limited_awrap_model_call"}
\* The tools of the requests the handler was called with.
ForwardedTools(handled) == [i \in DOMAIN handled |-> handled[i].tools]

\* C22: for a request whose state is None, lacks skills_loaded, or holds a
\* skills_loaded that is no list of names (None), wrap_model_call and
\* awrap_model_call raise nothing of their own and hand the handler exactly
\* the loader tools.
C22_AbsentFieldIsEmpty ==
    ( /\ call.op \in {"wrap_model_call", "awrap_model_call"}
      /\ \/ call.arg.state.shape = "None"
         \/ ~call.arg.state.has
         \/ call.arg.state.skills_loaded.is_none )
    => /\ raised = IF call.handler = "raises" THEN "HandlerError" ELSE None
       /\ ForwardedTools(ret.handled) = <<get_all_loader_tools(None)>>

\* C23: each call through the middleware calls the handler exactly once and
\* returns what it returns; what the handler raises is raised, unchanged, and
\* nothing else is.
C23_PassThrough ==
    call.op \in ModelCallOps
    => /\ Len(ret.handled) = 1
       /\ raised = handler_call(call.handler, ret.handled[1]).raised
       /\ ret.val = handler_call(call.handler, ret.handled[1]).val
       /\ ret.kind = IF call.handler = "raises" THEN "raised" ELSE "returned"

\* C24: the request handed to the handler has the fields of the incoming
\* request with the same values, tools excepted, and the incoming request
\* object is as it was.
C24_OnlyToolsReplaced ==
    call.op \in ModelCallOps
    => /\ \A i \in DOMAIN ret.handled :
             /\ DOMAIN ret.handled[i] = DOMAIN call.arg
             /\ \A field \in DOMAIN call.arg \ {"tools"} :
                    ret.handled[i][field] = call.arg[field]
       /\ ret.request = call.arg

\* A call that replaced the tools of the request it forwarded.
C24_Witness ==
    /\ call.op \in ModelCallOps
    /\ Len(ret.handled) = 1
    /\ ret.handled[1].tools # call.arg.tools
    /\ call.arg.state.has /\ call.arg.state.skills_loaded = Py(<<"X">>)
    /\ ret.request = call.arg

\* C25: for the registry, the request and the middleware of any call,
\* wrap_model_call and awrap_model_call hand the handler the same tools, and
\* so do RateLimitedSkillMiddleware's two methods, a
\* PermissionAwareSkillMiddleware and a SkillMiddleware without filter_fn.
C25_SameFiltering ==
    call.op \in ModelCallOps
    => LET base == [verbose |-> FALSE, filter_fn |-> None]
           permission_aware == [verbose |-> verbose, filter_fn |-> "always_true"]
           sync(self) == ForwardedTools(wrap_model_call(self, call.arg, call.handler).handled)
           async(self) == ForwardedTools(awrap_model_call(self, call.arg, call.handler).handled)
       IN /\ sync(Middleware) = async(Middleware)
          /\ ForwardedTools(ret.handled) = sync(Middleware)
          /\ \A self \in {base, permission_aware} :
                /\ sync(self) = sync(Middleware)
                /\ async(self) = sync(Middleware)
          /\ ForwardedTools(rate_limited_wrap_model_call(base, call.arg, call.handler).handled)
               = sync(Middleware)
          /\ ForwardedTools(rate_limited_awrap_model_call(base, call.arg, call.handler).handled)
               = sync(Middleware)

\* An awrap_model_call of a middleware with a filter_fn that rejects regular
\* tools, for a session that unlocked X.
C25_Witness ==
    /\ call.op = "awrap_model_call"
    /\ filter_fn = "is_loader"
    /\ Len(ret.handled) = 1
    /\ \E t \in Range(ret.handled[1].tools) : t.kind = "tool"

\* The reads of the registry and the calls through a middleware.
ServingOps ==
    ModelCallOps \cup
    {"get", "get_metadata", "list_skills", "search", "get_all_loader_tools",
     "get_all_tools", "get_tools_for_skills", "get_tools_for_state"}
\* C26, one step.
C26_Step ==
    call'.op \in ServingOps
    => UNCHANGED <<skills, metadata_cache, state, filter_fn, verbose>>

\* C26: get, get_metadata, list_skills, search, get_all_loader_tools,
\* get_all_tools, get_tools_for_skills and every call through a middleware
\* leave _skills, _metadata_cache and the session's skills_loaded as they
\* were, and the middleware's own attributes too.
C26_ServingNeverWrites == [][C26_Step]_vars

\* A get that returned an entry of a registry of three.
C26_Witness ==
    /\ call.op = "get"
    /\ raised = None
    /\ Len(skills) = 3
    /\ ret.val = DictGet(skills, call.arg)

\* C29, the call of the state made again by a middleware self.
C29_Again(self) ==
    CASE call.op = "wrap_model_call" -> wrap_model_call(self, call.arg, call.handler)
      [] call.op = "awrap_model_call" -> awrap_model_call(self, call.arg, call.handler)
      [] call.op = "rate_limited_wrap_model_call" ->
            rate_limited_wrap_model_call(self, call.arg, call.handler)
      [] call.op = "rate_limited_awrap_model_call" ->
            rate_limited_awrap_model_call(self, call.arg, call.handler)

\* C29: a middleware with verbose set hands the handler the same tools,
\* calls it as many times and returns or raises the same as one without,
\* and so does SimpleSkillMiddleware.get_tools_for_state.
C29_VerboseChangesNothing ==
    /\ call.op \in ModelCallOps =>
          \A v \in BOOLEAN :
              LET r == C29_Again([Middleware EXCEPT !.verbose = v])
              IN /\ r.handled = ret.handled
                 /\ r.val = ret.val
                 /\ r.raised = raised
                 /\ (r.logged # <<>>) = (v /\ r.handled # <<>>)
    /\ call.op = "get_tools_for_state" =>
          \A v \in BOOLEAN :
              get_tools_for_state([Middleware EXCEPT !.verbose = v], call.arg).val = ret.val

\* A verbose middleware that logged and forwarded X's regular tools.
C29_Witness ==
    /\ call.op = "wrap_model_call"
    /\ verbose
    /\ ret.logged # <<>>
    /\ Len(ret.handled) = 1
    /\ \E t \in Range(ret.handled[1].tools) : t.kind = "tool"

\* C27: whatever the interleaving of the steps of the turns in flight, the
\* handler of each turn is called once, with the tools of
\* get_tools_for_skills for the skills_loaded of that turn's own session, and
\* what a turn has computed is computed from its own session too.
C27_OwnSessionOnly ==
    \A t \in DOMAIN turns :
        LET own == get_tools_for_skills(turns[t].request.state.skills_loaded.items)
        IN /\ turns[t].pc = "computed" => turns[t].relevant_tools = own
           /\ turns[t].pc = "done" => ForwardedTools(turns[t].handled) = <<own>>
           /\ turns[t].pc # "raised"

\* Turn 1 has just called its handler while turn 2, of a session with other
\* skills loaded, stands between its computation and its handler call.
C27_Witness ==
    /\ call.op = "delegate" /\ call.arg = 1
    /\ turns[1].pc = "done" /\ turns[2].pc = "computed"
    /\ turns[1].request.state.skills_loaded = Py(<<"X">>)
    /\ turns[2].request.state.skills_loaded = Py(<<"Y">>)
    /\ turns[1].handled[1].tools # turns[2].relevant_tools

\* C28: at every model call of a run, whatever was registered, unregistered
\* and loaded before it and whatever earlier model calls were handed, the
\* handler gets the tools get_tools_for_skills gives for the registry and the
\* session's skills_loaded as they are at that call.
C28_RecomputedEveryCall ==
    call.op = "wrap_model_call"
    => /\ ForwardedTools(ret.handled) = <<get_tools_for_skills(state.skills_loaded.items)>>
       /\ turns[Len(turns)] = ret.handled

\* A model call that follows another: in between X was loaded, registered or
\* unregistered, and the handler got other tools than before.
C28_Witness ==
    /\ call.op = "wrap_model_call"
    /\ Len(turns) = 2
    /\ turns[1] # <<>> /\ turns[2] # <<>>
    /\ \E t \in Range(turns[1][1].tools) : t.kind = "tool" /\ t \notin Range(turns[2][1].tools)
    /\ \E t \in Range(turns[2][1].tools) : t.kind = "tool" /\ t \notin Range(turns[1][1].tools)

\* C30, the listings in a state: list_skills() is the names registered, each
\* once, and list_skills(filter_fn) those among them, in the same order,
\* whose cached descriptor satisfies filter_fn.
C30_Listing ==
    /\ DictKeys(metadata_cache) = DictKeys(skills)
    /\ \A i, j \in DOMAIN skills : skills[i].key = skills[j].key => i = j
    /\ list_skills(None) = DictKeys(skills)
    /\ \A f \in MetaFilters \ {None} :
          list_skills(f) = SelectSeq(list_skills(None),
                                     LAMBDA n : ApplyMetaFilter(f, DictGet(metadata_cache, n)))
    /\ call.op = "list_skills" /\ raised = None => ret.val = list_skills(call.arg)

\* C30, one step: a register of a new name puts it last, a register of a
\* name already there moves nothing, an unregister takes the name out and
\* moves nothing, a discovery puts new names last, and nothing else changes
\* the order.
C30_Step ==
    LET before == DictKeys(skills)
        after == DictKeys(skills')
    IN CASE call'.op = "register" /\ raised' = None ->
                IF InSeq(call'.arg.name, before)
                THEN after = before
                ELSE after = Append(before, call'.arg.name)
         [] call'.op = "unregister" ->
                after = SelectSeq(before, LAMBDA n : n # call'.arg)
         [] call'.op = "discover_and_load" ->
                /\ Len(after) >= Len(before)
                /\ SubSeq(after, 1, Len(before)) = before
         [] OTHER -> after = before

\* C30: list_skills() returns the registered names and list_skills(filter_fn)
\* those whose cached descriptor satisfies it, in the order of registration
\* (a name registered again keeps its place, one registered after an
\* unregister goes last), the second a subsequence of the first.
C30_RegistrationOrder == [](C30_Listing) /\ [][C30_Step]_vars

\* A filtered listing of three names registered out of alphabetical order,
\* the middle one registered a second time since.
C30_Witness ==
    /\ call.op = "list_skills" /\ call.arg = "enabled"
    /\ DictKeys(skills) = <<"Z", "X", "Y">>
    /\ ret.val = <<"Z", "Y">>

\* C31, query is a substring of str, letter case apart.
C31_Within(query, str) ==
    \E i \in 1 .. Len(Lower(str)) + 1, j \in 0 .. Len(Lower(str)) :
        SubSeq(Lower(str), i, j) = Lower(query)

\* C31, what the criteria of a search ask of a descriptor.
C31_Satisfies(meta, arg) ==
    /\ arg.query # "" =>
          C31_Within(arg.query, meta.name) \/ C31_Within(arg.query, meta.description)
    /\ arg.tags # <<>> => Range(arg.tags) \cap Range(tags_of(meta)) # {}
    /\ arg.visibility # None => visibility_of(meta) = arg.visibility

\* C31: search(query, tags, visibility) returns, each once, the cached
\* descriptors of the registered skills, enabled or not, for which query
\* (when not empty) is a substring of the name or the description whatever
\* the letter case, one of tags (when given and not empty) is among the
\* descriptor's tags, and visibility (when given) is the descriptor's.
C31_SearchExact ==
    call.op = "search"
    => /\ raised = None
       /\ Range(ret.val) =
             {metadata(DictGet(skills, n)) : n \in
                {m \in Range(DictKeys(skills)) :
                    C31_Satisfies(DictGet(metadata_cache, m), call.arg)}}
       /\ \A i, j \in DOMAIN ret.val : ret.val[i] = ret.val[j] => i = j

\* With alpha tagged math and beta tagged text registered: the query "AL"
\* with no other criterion gave alpha alone.
C31_Witness ==
    /\ call.op = "search"
    /\ call.arg = [query |-> "AL", tags |-> <<>>, visibility |-> None]
    /\ DictKeys(skills) = <<"alpha", "beta">>
    /\ [i \in DOMAIN ret.val |-> ret.val[i].name] = <<"alpha">>

\* C32, the registered names whose skill is disabled.
C32_Disabled == {n \in Range(DictKeys(skills)) : ~metadata(DictGet(skills, n)).enabled}

\* C32: no loader and no regular tool of a registered skill with enabled
\* False is in what get_all_loader_tools, get_all_tools or
\* get_tools_for_skills return, its name among the unlocked or not; get and
\* get_metadata return it, list_skills() and search() hold it.
C32_DisabledContributesNothing ==
    /\ call.op \in {"get_all_loader_tools", "get_all_tools", "get_tools_for_skills"}
         => /\ raised = None
            /\ \A t \in Range(ret.val) : t.owner.name \notin C32_Disabled
    /\ call.op = "get" /\ call.arg \in C32_Disabled
         => raised = None /\ ret.val = DictGet(skills, call.arg)
    /\ call.op = "get_metadata" /\ call.arg \in C32_Disabled
         => raised = None /\ ret.val = metadata(DictGet(skills, call.arg))
    /\ call.op = "list_skills" /\ call.arg = None
         => C32_Disabled \subseteq Range(ret.val)
    /\ call.op = "search" /\ call.arg = [query |-> "", tags |-> <<>>, visibility |-> None]
         => C32_Disabled \subseteq {ret.val[i].name : i \in DOMAIN ret.val}

\* get_all_tools on a registry that holds the disabled Y between two
\* enabled skills.
C32_Witness ==
    /\ call.op = "get_all_tools" /\ call.arg = None
    /\ DictKeys(skills) = <<"X", "Y", "Z">>
    /\ C32_Disabled = {"Y"}
    /\ {t.owner.name : t \in Range(ret.val)} = {"X", "Z"}

\* C33, the loader and then the regular tools of each of the skills named,
\* in the order named.
RECURSIVE C33_Blocks(_)
C33_Blocks(names) ==
    IF names = <<>> THEN <<>>
    ELSE LET last == DictGet(skills, names[Len(names)])
         IN C33_Blocks(SubSeq(names, 1, Len(names) - 1))
              \o <<get_loader_tool(last)>> \o get_tools(last)

\* C33: get_all_tools(filter_fn) is, for the enabled skills among
\* list_skills(filter_fn) in that order, the loader of each followed at once
\* by its regular tools, and nothing else.
C33_LoaderThenTools ==
    call.op = "get_all_tools"
    => /\ raised = None
       /\ ret.val = C33_Blocks(SelectSeq(list_skills(call.arg),
                                         LAMBDA n : metadata(DictGet(skills, n)).enabled))

\* get_all_tools() on Z and X registered in that order around the disabled Y.
C33_Witness ==
    /\ call.op = "get_all_tools" /\ call.arg = None
    /\ DictKeys(skills) = <<"Z", "Y", "X">>
    /\ Len(ret.val) = 2 * (MaxTools + 1)
    /\ ret.val[1].kind = "loader" /\ ret.val[1].owner.name = "Z"
    /\ ret.val[MaxTools + 2].kind = "loader" /\ ret.val[MaxTools + 2].owner.name = "X"

\* C34: no two /message requests are at once between their read of
\* manager.history and manager.skills_loaded and their last write back to
\* manager: the steps of one turn never interleave with those of another.
C34_TurnsSerialized ==
    \A t, u \in DOMAIN turns : InFlight(t) /\ InFlight(u) => t = u

\* C40, in every state: manager.skills_loaded names no skill twice, and is
\* empty when /init has just returned.
C40_NoDuplicates ==
    /\ \A i, j \in DOMAIN state.skills_loaded :
          state.skills_loaded[i] = state.skills_loaded[j] => i = j
    /\ call.op = "init_agent" => state.skills_loaded = <<>> /\ state.history = <<>>

\* C40, the write of a turn of a sequence, one that ran with no other
\* request in flight: what manager.skills_loaded held before the turn is
\* kept, in its order, at the front of what is stored, and what the turn
\* reported follows.
C40_Step ==
    (call'.op = "write_skills" /\ turns[call'.arg].alone)
    => LET before == turns[call'.arg].skills_loaded
       IN /\ Len(state'.skills_loaded) >= Len(before)
          /\ SubSeq(state'.skills_loaded, 1, Len(before)) = before
          /\ Range(state'.skills_loaded) = Range(before) \cup Range(turns[call'.arg].reported)

\* C40: manager.skills_loaded is empty after every /init and, after any
\* sequence of /message turns, names no skill twice and keeps the names it
\* held before the turn, in their order, whatever the agent's result and its
\* loader tool calls report as loaded.
C40_FrontendAccumulates == [](C40_NoDuplicates) /\ [][C40_Step]_vars

\* The second of two turns, run after the first had completed: it started
\* with pdf_processing loaded and its agent reported data_analysis twice.
C40_Witness ==
    /\ call.op = "write_skills"
    /\ \A u \in DOMAIN turns : u # call.arg => turns[u].pc = "done"
    /\ turns[call.arg].alone
    /\ turns[call.arg].skills_loaded = <<"pdf_processing">>
    /\ turns[call.arg].reported = <<"data_analysis", "data_analysis">>
    /\ state.skills_loaded = <<"pdf_processing", "data_analysis">>

\* C35: every tool the middleware of an agent made by create_skill_agent
\* hands the handler is among the tools the agent was created with,
\* get_all_tools under the combined filter; none is the loader or a regular
\* tool of a skill whose visibility the config does not allow, whatever
\* skills_loaded holds.
C35_ExposedWithinAgentTools ==
    call.op = "wrap_model_call"
    => \A i \in DOMAIN ret.handled : \A t \in Range(ret.handled[i].tools) :
          /\ InSeq(t, get_all_tools(filter_fn))
          /\ ApplyMetaFilter(filter_fn, metadata(t.owner))

C37_Call ==
    /\ call.op = "skill_list_fifo"
    /\ call.arg.reducer.max_skills >= 1
    /\ ~call.arg.current.is_none /\ ~call.arg.new.is_none
    /\ Len(call.arg.current.items) <= call.arg.reducer.max_skills
    /\ \A i, j \in DOMAIN call.arg.current.items :
          call.arg.current.items[i] = call.arg.current.items[j] => i = j

\* C37 as claimed: when new holds at most max_size distinct names, every
\* name of new is in the result.
C37_JustUnlockedKept ==
    (C37_Call /\ Cardinality(Range(call.arg.new.items)) <= call.arg.reducer.max_skills)
    => /\ raised = None
       /\ Range(call.arg.new.items) \subseteq Range(ret.val.items)

\* C37 as the code has it: when new holds at most max_size entries, every
\* name of new that current does not hold is in the result, and the result
\* holds names of current and new only; a name of new that current holds
\* stays where it was and is evicted with the oldest.
C37_NewNamesKept ==
    (C37_Call /\ Len(call.arg.new.items) <= call.arg.reducer.max_skills)
    => /\ raised = None
       /\ Range(call.arg.new.items) \ Range(call.arg.current.items)
             \subseteq Range(ret.val.items)
       /\ Range(ret.val.items)
             \subseteq Range(call.arg.current.items) \cup Range(call.arg.new.items)

\* fifo(2)(["a","b"], ["a","c"]) == ["b","c"]: c came in, a went out though
\* new names it.
C37_Witness ==
    /\ C37_Call
    /\ call.arg.reducer.max_skills = 2
    /\ call.arg.current.items = <<"a", "b">>
    /\ call.arg.new.items = <<"a", "c">>
    /\ ret.val.items = <<"b", "c">>

\* C38 as claimed, one discover_and_load step: on an empty registry the
\* number of names afterwards is the count returned, and on any registry
\* that holds none of the names discovered the registry grows by the count.
C38_StepClaimed ==
    call'.op = "discover_and_load" =>
        LET dir == call'.arg
            okNames == {dir[i].skill.name : i \in {j \in DOMAIN dir : LoadsAndRegisters(dir[j])}}
        IN /\ skills = <<>> => Len(skills') = ret'.val
           /\ okNames \cap Range(DictKeys(skills)) = {}
                 => Len(skills') = Len(skills) + ret'.val
C38_CountIsGrowth == [][C38_StepClaimed]_vars

\* C38 as the code has it, one discover_and_load step: the registry grows by
\* the number of distinct names discovered that it did not hold, which is
\* the count returned exactly when no name discovered was registered before
\* and no two subdirectories gave the same name, and less otherwise.
C38_Step ==
    call'.op = "discover_and_load" =>
        LET dir == call'.arg
            ok == {i \in DOMAIN dir : LoadsAndRegisters(dir[i])}
            okNames == {dir[i].skill.name : i \in ok}
            grown == Len(skills') - Len(skills)
        IN /\ grown = Cardinality(okNames \ Range(DictKeys(skills)))
           /\ grown <= ret'.val
           /\ (grown = ret'.val) <=>
                 /\ okNames \cap Range(DictKeys(skills)) = {}
                 /\ \A i, j \in ok : dir[i].skill.name = dir[j].skill.name => i = j
C38_CountBoundsGrowth == [][C38_Step]_vars

\* Two subdirectories whose create_skill gives a skill named X, on a
\* registry without Z: 2 is returned and one name is registered.
C38_Witness ==
    /\ call.op = "discover_and_load"
    /\ Len(call.arg) = 2
    /\ \A i \in DOMAIN call.arg : LoadsAndRegisters(call.arg[i]) /\ call.arg[i].skill.name = "X"
    /\ ret.val = 2
    /\ DictKeys(skills) = <<"X">>

\* C39: get_tools_for_skills is monotone in the unlocked-names list: in every
\* registry state, for the list A of a call and every list B in which every
\* name of A occurs, every operation returned for A is also returned for B.
C39_Monotone ==
    call.op = "get_tools_for_skills" =>
        \A B \in UnlockedLists :
            Range(call.arg) \subseteq Range(B)
                => Range(ret.val) \subseteq Range(get_tools_for_skills(B))

\* C39 witness: a call whose list unlocks a registered enabled capability
\* while another registered enabled capability is left out, so that a longer
\* list exposes strictly more.
C39_Witness ==
    /\ call.op = "get_tools_for_skills"
    /\ \E c, d \in ValidSkills :
        /\ IsRegistered(c) /\ c.enabled /\ InSeq(c.name, call.arg)
        /\ IsRegistered(d) /\ d.enabled /\ ~InSeq(d.name, call.arg)
        /\ \E B \in UnlockedLists :
            /\ Range(call.arg) \subseteq Range(B) /\ InSeq(d.name, B)
            /\ Range(ret.val) \subseteq Range(get_tools_for_skills(B))
            /\ Range(ret.val) # Range(get_tools_for_skills(B))
            /\ \A t \in Range(get_tools(c)) : InSeq(t, ret.val)

====
